---- MODULE Spec2Model ----
(***************************************************************************)
(* Model of backend/agents/extraction_agent.py (LitScout): the PDF         *)
(* acquisition chain, the layout-driven section segmenter and the three    *)
(* stage extraction pipeline.                                              *)
(*                                                                         *)
(* Python strings are TLA+ strings; TLC treats them as sequences of one    *)
(* character strings (Len, SubSeq, \o).                                    *)
(***************************************************************************)
EXTENDS Integers, Sequences, FiniteSets, TLC

(***************************************************************************)
(* Bounds of the model.                                                    *)
(***************************************************************************)
MaxPages == 2
MaxBlocks == 3

(***************************************************************************)
(* Python string primitives.                                               *)
(***************************************************************************)
Whitespace == {" ", "\t", "\n", "\r"}
Digits == {"0", "1", "2", "3", "4", "5", "6", "7", "8", "9"}
UpperLetters == "ABCDEFGHIJKLMNOPQRSTUVWXYZ"
LowerLetters == "abcdefghijklmnopqrstuvwxyz"
LowerSet == {SubSeq(LowerLetters, k, k) : k \in 1..26}
UpperSet == {SubSeq(UpperLetters, k, k) : k \in 1..26}
WordChars == LowerSet \cup UpperSet \cup Digits \cup {"_"}

CharAt(s, i) == SubSeq(s, i, i)

LowerChar(c) ==
    IF c \in UpperSet
    THEN CharAt(LowerLetters, CHOOSE k \in 1..26 : CharAt(UpperLetters, k) = c)
    ELSE c

(* str.lower(), character by character (the two halves are lowered apart  *)
(* to keep the recursion shallow on long texts).                           *)
RECURSIVE lower(_)
lower(s) ==
    IF s = "" THEN ""
    ELSE IF Len(s) = 1 THEN LowerChar(s)
    ELSE lower(SubSeq(s, 1, Len(s) \div 2)) \o lower(SubSeq(s, Len(s) \div 2 + 1, Len(s)))

RECURSIVE lstrip(_)
lstrip(s) == IF s # "" /\ Head(s) \in Whitespace THEN lstrip(Tail(s)) ELSE s

RECURSIVE rstrip(_)
rstrip(s) ==
    IF s # "" /\ CharAt(s, Len(s)) \in Whitespace
    THEN rstrip(SubSeq(s, 1, Len(s) - 1))
    ELSE s

strip(s) == rstrip(lstrip(s))

isdigit(s) == s # "" /\ \A k \in 1..Len(s) : CharAt(s, k) \in Digits

(* str.split(): the maximal runs of non-whitespace characters.             *)
RECURSIVE split(_)
split(s) ==
    LET t == lstrip(s)
        n == IF \E k \in 1..Len(t) : CharAt(t, k) \in Whitespace
             THEN (CHOOSE k \in 1..Len(t) :
                      /\ CharAt(t, k) \in Whitespace
                      /\ \A j \in 1..(k - 1) : CharAt(t, j) \notin Whitespace) - 1
             ELSE Len(t)
    IN  IF t = "" THEN <<>>
        ELSE <<SubSeq(t, 1, n)>> \o split(SubSeq(t, n + 1, Len(t)))

(* str.split(sep) for a one character separator.                           *)
RECURSIVE split_on(_, _)
split_on(s, sep) ==
    IF \E k \in 1..Len(s) : CharAt(s, k) = sep
    THEN LET n == CHOOSE k \in 1..Len(s) :
                     /\ CharAt(s, k) = sep
                     /\ \A j \in 1..(k - 1) : CharAt(s, j) # sep
         IN  <<SubSeq(s, 1, n - 1)>> \o split_on(SubSeq(s, n + 1, Len(s)), sep)
    ELSE <<s>>

(* sub in s                                                                *)
Contains(s, sub) == \E i \in 1..(Len(s) - Len(sub) + 1) : SubSeq(s, i, i + Len(sub) - 1) = sub

(* sep.join(parts)                                                         *)
RECURSIVE join(_, _)
join(sep, parts) ==
    IF parts = <<>> THEN ""
    ELSE IF Len(parts) = 1 THEN parts[1]
    ELSE parts[1] \o sep \o join(sep, Tail(parts))

(***************************************************************************)
(* Regular expressions of the re module, as syntax trees:                  *)
(*   <<"lit", s>>  the string s          <<"set", S>>  one character of S  *)
(*   <<"cat", rs>> concatenation         <<"alt", rs>> alternation         *)
(*   <<"opt", r>>  r?     <<"star", r>>  r*     <<"plus", r>>  r+          *)
(*   <<"bol">>     ^      <<"eol">>      $                                *)
(* Ends(re, s, i) is the set of positions at which a match of re that      *)
(* starts at position i of s can end.                                      *)
(***************************************************************************)
RECURSIVE Ends(_, _, _)
RECURSIVE StarEnds(_, _, _, _)

Ends(re, s, i) ==
    CASE re[1] = "lit" ->
            IF i + Len(re[2]) - 1 <= Len(s) /\ SubSeq(s, i, i + Len(re[2]) - 1) = re[2]
            THEN {i + Len(re[2])} ELSE {}
      [] re[1] = "set" ->
            IF i <= Len(s) /\ CharAt(s, i) \in re[2] THEN {i + 1} ELSE {}
      [] re[1] = "cat" ->
            IF Len(re[2]) = 0 THEN {i}
            ELSE UNION {Ends(<<"cat", Tail(re[2])>>, s, j) : j \in Ends(Head(re[2]), s, i)}
      [] re[1] = "alt" ->
            UNION {Ends(re[2][k], s, i) : k \in 1..Len(re[2])}
      [] re[1] = "opt" -> {i} \cup Ends(re[2], s, i)
      [] re[1] = "star" -> StarEnds(re[2], s, {i}, {i})
      [] re[1] = "plus" ->
            UNION {StarEnds(re[2], s, {j}, {j}) : j \in Ends(re[2], s, i)}
      [] re[1] = "bol" -> IF i = 1 THEN {i} ELSE {}
      [] re[1] = "eol" ->
            IF i = Len(s) + 1 \/ (i = Len(s) /\ CharAt(s, i) = "\n") THEN {i} ELSE {}

StarEnds(r, s, frontier, seen) ==
    LET next == (UNION {Ends(r, s, j) : j \in frontier}) \ seen
    IN  IF next = {} THEN seen ELSE StarEnds(r, s, next, seen \cup next)

(* re.search(p, s) and re.match(p, s), as booleans.                        *)
re_search(p, s) == \E i \in 1..(Len(s) + 1) : Ends(p, s, i) # {}
re_match(p, s) == Ends(p, s, 1) # {}

Lit(s) == <<"lit", s>>
Set(S) == <<"set", S>>
Cat(rs) == <<"cat", rs>>
Alt(rs) == <<"alt", rs>>
Opt(r) == <<"opt", r>>
Star(r) == <<"star", r>>
Plus(r) == <<"plus", r>>
Bol == <<"bol">>
Eol == <<"eol">>

SpaceStar == Star(Set(Whitespace))
SpacePlus == Plus(Set(Whitespace))
Number == Plus(Set(Digits))
Roman == Plus(Set({"i", "v", "x", "I", "V", "X"}))
OptDot == Opt(Lit("."))
OptColon == Opt(Lit(":"))

(* ^\s*\d+\.?\s*  and  ^\s*[ivxIVX]+\.?\s*  followed by a keyword          *)
Numbered(kw) == Cat(<<Bol, SpaceStar, Number, OptDot, SpaceStar, kw>>)
RomanNumbered(kw) == Cat(<<Bol, SpaceStar, Roman, OptDot, SpaceStar, kw>>)
(* ^\s*kw\s*:?\s*$                                                         *)
Bare(kw) == Cat(<<Bol, SpaceStar, kw, SpaceStar, OptColon, SpaceStar, Eol>>)

(***************************************************************************)
(* clean_pdf_text.  The two patterns are compiled with re.IGNORECASE; the  *)
(* model matches their lower-case form against the lower-cased line.       *)
(***************************************************************************)
header_footer_pattern ==
    Alt(<<Lit("page"), Number, Lit("figure"), Lit("table"), Lit("www."),
          Lit("http"), Lit("doi:"), Lit("arxiv:")>>)

copyright_pattern ==
    Alt(<<Lit("copyright"), Lit("(c)"), Lit("license"), Lit("permission"),
          Lit("reprinted")>>)

keep_line(line) ==
    /\ line # ""
    /\ ~re_match(header_footer_pattern, lower(line))
    /\ ~(Len(line) <= 2 \/ isdigit(line))
    /\ ~re_search(copyright_pattern, lower(line))

RECURSIVE strip_each(_)
strip_each(lines) ==
    IF lines = <<>> THEN <<>> ELSE <<strip(Head(lines))>> \o strip_each(Tail(lines))

(* The length of the longest prefix of s without a whitespace character.   *)
word_prefix(s) ==
    IF \E k \in 1..Len(s) : CharAt(s, k) \in Whitespace
    THEN (CHOOSE k \in 1..Len(s) :
             /\ CharAt(s, k) \in Whitespace
             /\ \A j \in 1..(k - 1) : CharAt(s, j) \notin Whitespace) - 1
    ELSE Len(s)

(* Variant: re.sub(r'\s+', '', s)                                          *)
RECURSIVE collapse_whitespace_removed(_)
collapse_whitespace_removed(s) ==
    IF s = "" THEN ""
    ELSE IF Head(s) \in Whitespace THEN collapse_whitespace_removed(lstrip(s))
    ELSE SubSeq(s, 1, word_prefix(s))
            \o collapse_whitespace_removed(SubSeq(s, word_prefix(s) + 1, Len(s)))

(* re.sub(r'\s+', ' ', s): every run of whitespace becomes one space, the  *)
(* runs of other characters are kept.                                      *)
RECURSIVE collapse_whitespace(_)
collapse_whitespace(s) ==
    IF s = "" THEN ""
    ELSE IF Head(s) \in Whitespace THEN " " \o collapse_whitespace(lstrip(s))
    ELSE SubSeq(s, 1, word_prefix(s))
            \o collapse_whitespace(SubSeq(s, word_prefix(s) + 1, Len(s)))

clean_pdf_text(text) ==
    IF text = "" THEN ""
    ELSE LET lines == split_on(text, "\n")
             cleaned_lines == SelectSeq(strip_each(lines), keep_line)
         IN  collapse_whitespace(join(" ", cleaned_lines))

(***************************************************************************)
(* extract_text_from_pdf: the section patterns, in dictionary order.       *)
(***************************************************************************)
section_patterns ==
    << [name |-> "introduction",
        patterns |-> << Bare(Lit("introduction")),
                        Numbered(Lit("introduction")),
                        RomanNumbered(Lit("introduction")) >>],
       [name |-> "methods",
        patterns |-> << Numbered(Alt(<<Lit("method"), Lit("methodology"), Lit("approach"),
                                       Cat(<<Lit("material"), Opt(Lit("s"))>>)>>)),
                        RomanNumbered(Alt(<<Lit("method"), Lit("methodology")>>)),
                        Bare(Alt(<<Lit("method"), Lit("methodology")>>)),
                        Cat(<<Lit("material"), Opt(Lit("s")), SpacePlus, Lit("and"),
                              SpacePlus, Lit("method"), Opt(Lit("s"))>>),
                        Cat(<<Lit("experimental"), SpacePlus,
                              Alt(<<Lit("setup"), Lit("design"), Lit("procedure"),
                                    Cat(<<Lit("method"), Opt(Lit("s"))>>)>>)>>) >>],
       [name |-> "results",
        patterns |-> << Cat(<<Numbered(Alt(<<Lit("result"), Lit("finding"), Lit("experiment")>>)),
                              Opt(Lit("s"))>>),
                        Cat(<<RomanNumbered(Alt(<<Lit("result"), Lit("finding")>>)),
                              Opt(Lit("s"))>>),
                        Bare(Cat(<<Alt(<<Lit("result"), Lit("finding")>>), Opt(Lit("s"))>>)),
                        Cat(<<Lit("experimental"), SpacePlus, Lit("result"), Opt(Lit("s"))>>) >>],
       [name |-> "discussion",
        patterns |-> << Numbered(Lit("discussion")),
                        RomanNumbered(Lit("discussion")),
                        Bare(Lit("discussion")),
                        Cat(<<Lit("result"), Opt(Lit("s")), SpacePlus, Lit("and"),
                              SpacePlus, Lit("discussion")>>) >>],
       [name |-> "conclusion",
        patterns |-> << Numbered(Alt(<<Lit("conclusion"), Lit("summary"),
                                       Cat(<<Lit("future"), SpacePlus, Lit("work")>>)>>)),
                        RomanNumbered(Alt(<<Lit("conclusion"), Lit("summary")>>)),
                        Bare(Alt(<<Lit("conclusion"), Lit("summary")>>)) >>] >>

SectionNames == {"introduction", "methods", "results", "discussion", "conclusion"}

(* ^\s*(reference|bibliography)                                            *)
references_pattern ==
    Cat(<<Bol, SpaceStar, Alt(<<Lit("reference"), Lit("bibliography")>>)>>)

is_references(text_lower) == re_search(references_pattern, text_lower)

matches_section(k, text_lower) ==
    \E p \in 1..Len(section_patterns[k].patterns) :
        re_search(section_patterns[k].patterns[p], text_lower)

(* The for/break over section_patterns.items(): the first section, in      *)
(* declared order, one of whose patterns matches; "None" when none does.   *)
RECURSIVE detect_from(_, _)
detect_from(k, text_lower) ==
    IF k > Len(section_patterns) THEN "None"
    ELSE IF matches_section(k, text_lower) THEN section_patterns[k].name
    ELSE detect_from(k + 1, text_lower)

(* Variant: the last section, in declared order, with a matching pattern.  *)
detect_section_last(text_lower) ==
    LET matching == {k \in 1..Len(section_patterns) : matches_section(k, text_lower)}
    IN  IF matching = {} THEN "None"
        ELSE section_patterns[CHOOSE k \in matching : \A j \in matching : j <= k].name

detect_section(text_lower) == detect_from(1, text_lower)

(* Variant: a block of exactly 200 characters may be the title.            *)
is_title_candidate_inclusive(text) == Len(split(text)) >= 3 /\ Len(text) <= 200

is_title_candidate(text) == Len(split(text)) >= 3 /\ Len(text) < 200

EmptySections ==
    [title |-> "", introduction |-> "", methods |-> "", results |-> "",
     discussion |-> "", conclusion |-> "", full_text |-> ""]

(* sorted(blocks, key=lambda b: (b[1], b[0])): stable, by y0 then x0.      *)
key_le(a, b) == a.y0 < b.y0 \/ (a.y0 = b.y0 /\ a.x0 <= b.x0)

RECURSIVE insert_block(_, _)
insert_block(b, s) ==
    IF s = <<>> THEN <<b>>
    ELSE IF key_le(Head(s), b) THEN <<Head(s)>> \o insert_block(b, Tail(s))
    ELSE <<b>> \o s

RECURSIVE sorted_blocks(_)
sorted_blocks(s) ==
    IF s = <<>> THEN <<>>
    ELSE insert_block(s[Len(s)], sorted_blocks(SubSeq(s, 1, Len(s) - 1)))

(***************************************************************************)
(* The documents of the model: at most MaxPages pages that hold at most    *)
(* MaxBlocks blocks between them; what PyMuPDF hands back for a page is a  *)
(* list of blocks (x0, y0, ..., text).                                     *)
(***************************************************************************)
BlockTexts ==
    {"Foo bar baz", "1. Introduction", "Models are trained.", "References",
     " ", "2.Experimental Setup"}
BlockCoords == {<<1, 0>>, <<0, 1>>}

RECURSIVE filler(_)
filler(n) == IF n = 0 THEN "" ELSE "x" \o filler(n - 1)

(* A block of three words that is exactly 200 characters long, at the top  *)
(* left corner of its page.                                                *)
LongBlock == [x0 |-> 0, y0 |-> 0, text |-> "A b " \o filler(196)]

BlockPool ==
    {[x0 |-> c[1], y0 |-> c[2], text |-> t] : c \in BlockCoords, t \in BlockTexts}
        \cup {LongBlock}
PagePool(limit) == UNION {[1..k -> BlockPool] : k \in 0..limit}

RECURSIVE block_texts(_)
block_texts(s) == IF s = <<>> THEN <<>> ELSE <<Head(s).text>> \o block_texts(Tail(s))

(***************************************************************************)
(* Python values.  A value is a record with its type tag t and its payload *)
(* v (the text of a str or bytes, the digits of an int) or, for a dict, d  *)
(* (a function from its keys to values).  A dict lookup of an absent key   *)
(* is the default handed to .get.                                          *)
(***************************************************************************)
PyNone == [t |-> "None", v |-> ""]
PyStr(s) == [t |-> "str", v |-> s]
PyBytes(s) == [t |-> "bytes", v |-> s]
PyInt(digits) == [t |-> "int", v |-> digits]
PyDict(f) == [t |-> "dict", d |-> f]
EmptyDict == PyDict(<<>>)

truthy(x) ==
    CASE x.t = "None" -> FALSE
      [] x.t \in {"str", "bytes"} -> x.v # ""
      [] x.t = "int" -> x.v # "0"
      [] x.t = "dict" -> DOMAIN x.d # {}

(* dict.get(key, default) on the function f of a dict                      *)
get(f, key, default) == IF key \in DOMAIN f THEN f[key] ELSE default

(* x[:n] raises TypeError unless x is a sequence                           *)
subscriptable(x) == x.t \in {"str", "bytes"}
take(s, n) == SubSeq(s, 1, IF Len(s) < n THEN Len(s) ELSE n)

SetMax(S) == CHOOSE m \in S : \A k \in S : k <= m
SetMin(S) == CHOOSE m \in S : \A k \in S : m <= k

(***************************************************************************)
(* extract_arxiv_id_from_paper.  The result is [raised, value]: raised     *)
(* when a TypeError leaves the function (it has no try).                   *)
(***************************************************************************)
Digit4 == Cat(<<Set(Digits), Set(Digits), Set(Digits), Set(Digits)>>)
(* \d{4}\.\d{4,5}                                                          *)
new_style_id == Cat(<<Digit4, Lit("."), Digit4, Opt(Set(Digits))>>)
(* [a-z\-]+/\d{7}                                                          *)
old_style_id ==
    Cat(<<Plus(Set(LowerSet \cup {"-"})), Lit("/"), Digit4,
          Set(Digits), Set(Digits), Set(Digits)>>)
(* arXiv:(\d{4}\.\d{4,5})                                                  *)
abstract_id_pattern == Cat(<<Lit("arXiv:"), new_style_id>>)

(* re.search(r'arXiv:(\d{4}\.\d{4,5})', abstract): group(1) of the         *)
(* leftmost match (the quantifier is greedy), PyNone without a match.      *)
abstract_arxiv_id(abstract) ==
    LET starts == {i \in 1..(Len(abstract) + 1) : Ends(abstract_id_pattern, abstract, i) # {}}
        i == SetMin(starts)
    IN  IF starts = {} THEN PyNone
        ELSE PyStr(SubSeq(abstract, i + 6, SetMax(Ends(abstract_id_pattern, abstract, i)) - 1))

(* re.search(r'(\d{4}\.\d{4,5}|[a-z\-]+/\d{7})', url): the leftmost        *)
(* match, the first alternative tried first at each position.              *)
url_arxiv_id(url) ==
    LET starts == {i \in 1..(Len(url) + 1) :
                      Ends(new_style_id, url, i) \cup Ends(old_style_id, url, i) # {}}
        i == SetMin(starts)
    IN  IF starts = {} THEN PyNone
        ELSE IF Ends(new_style_id, url, i) # {}
        THEN PyStr(SubSeq(url, i, SetMax(Ends(new_style_id, url, i)) - 1))
        ELSE PyStr(SubSeq(url, i, SetMax(Ends(old_style_id, url, i)) - 1))

Returned(x) == [raised |-> FALSE, value |-> x]
Raised == [raised |-> TRUE, value |-> PyNone]

(* external_ids.get('ArXiv') or external_ids.get('arxiv')                  *)
external_arxiv_id(external_ids) ==
    IF external_ids.t # "dict" THEN PyNone
    ELSE IF truthy(get(external_ids.d, "ArXiv", PyNone))
    THEN get(external_ids.d, "ArXiv", PyNone)
    ELSE get(external_ids.d, "arxiv", PyNone)

extract_arxiv_id_from_paper(paper) ==
    LET external_ids == get(paper, "externalIds", EmptyDict)
        abstract == get(paper, "abstract", PyStr(""))
        url == get(paper, "url", PyStr(""))
        from_abstract == IF truthy(abstract) /\ abstract.t = "str"
                         THEN abstract_arxiv_id(abstract.v) ELSE PyNone
    IN  IF truthy(external_arxiv_id(external_ids)) THEN Returned(external_arxiv_id(external_ids))
        ELSE IF truthy(abstract) /\ abstract.t # "str" THEN Raised
        ELSE IF truthy(from_abstract) THEN Returned(from_abstract)
        ELSE IF url.t # "str" THEN Raised
        ELSE IF Contains(url.v, "arxiv.org") THEN Returned(url_arxiv_id(url.v))
        ELSE Returned(PyNone)

(***************************************************************************)
(* HTTP.  A response of requests.get is [ok, content]: ok is FALSE when    *)
(* requests.get or raise_for_status raises (transport error, non-2xx).     *)
(***************************************************************************)
(* Variant: the function without its try/except.                           *)
fetch_pdf_from_arxiv_unguarded(arxiv_id, response) ==
    IF ~truthy(arxiv_id) THEN Returned(PyNone)
    ELSE IF ~response.ok THEN Raised
    ELSE Returned(PyBytes(response.content))

(* fetch_pdf_from_arxiv(arxiv_id) when the endpoint answers with response  *)
fetch_pdf_from_arxiv(arxiv_id, response) ==
    IF ~truthy(arxiv_id) THEN Returned(PyNone)
    ELSE IF ~response.ok THEN Returned(PyNone)
    ELSE Returned(PyBytes(response.content))

(* Variant: any non-empty body passes.                                     *)
is_pdf_nonempty(content) == Len(content) > 0

(* response.content[:4] == b'%PDF'                                         *)
is_pdf(content) == take(content, 4) = "%PDF"

(* fetch_pdf_from_open_access(open_access_info) when the URL answers with  *)
(* response; len(pdf_url) is outside the try.                              *)
fetch_pdf_from_open_access(open_access_info, response) ==
    LET pdf_url == get(open_access_info.d, "url", PyStr(""))
    IN  IF ~truthy(open_access_info) \/ open_access_info.t # "dict" THEN Returned(PyNone)
        ELSE IF ~truthy(pdf_url) THEN Returned(PyNone)
        ELSE IF ~subscriptable(pdf_url) THEN Raised
        ELSE IF Len(pdf_url.v) < 10 THEN Returned(PyNone)
        ELSE IF ~response.ok THEN Returned(PyNone)
        ELSE IF is_pdf(response.content) THEN Returned(PyBytes(response.content))
        ELSE Returned(PyNone)

(* Whether fetch_pdf_from_open_access sends its request.                   *)
open_access_requested(open_access_info) ==
    /\ truthy(open_access_info) /\ open_access_info.t = "dict"
    /\ LET pdf_url == get(open_access_info.d, "url", PyStr(""))
       IN  truthy(pdf_url) /\ subscriptable(pdf_url) /\ Len(pdf_url.v) >= 10

(***************************************************************************)
(* difflib.SequenceMatcher(None, a, b).ratio(), as the exact fraction      *)
(* [num, den] = 2 * matches / (len(a) + len(b)).  No element is junk for   *)
(* strings shorter than 200 characters.  The positions are 1-based and the *)
(* ranges alo..ahi, blo..bhi inclusive.                                    *)
(***************************************************************************)
RECURSIVE run_length(_, _, _, _, _, _)
run_length(a, i, ahi, b, j, bhi) ==
    IF i <= ahi /\ j <= bhi /\ CharAt(a, i) = CharAt(b, j)
    THEN 1 + run_length(a, i + 1, ahi, b, j + 1, bhi)
    ELSE 0

(* find_longest_match: the longest common block, the one that starts       *)
(* earliest in a and, among those, earliest in b.                          *)
find_longest_match(a, alo, ahi, b, blo, bhi) ==
    LET size == SetMax({run_length(a, i, ahi, b, j, bhi) : i \in alo..ahi, j \in blo..bhi})
        i == SetMin({x \in alo..ahi : \E y \in blo..bhi : run_length(a, x, ahi, b, y, bhi) = size})
        j == SetMin({y \in blo..bhi : run_length(a, i, ahi, b, y, bhi) = size})
    IN  [i |-> i, j |-> j, size |-> size]

RECURSIVE matching_size(_, _, _, _, _, _)
matching_size(a, alo, ahi, b, blo, bhi) ==
    IF alo > ahi \/ blo > bhi THEN 0
    ELSE LET m == find_longest_match(a, alo, ahi, b, blo, bhi)
         IN  IF m.size = 0 THEN 0
             ELSE m.size + matching_size(a, alo, m.i - 1, b, blo, m.j - 1)
                         + matching_size(a, m.i + m.size, ahi, b, m.j + m.size, bhi)

ratio(a, b) ==
    IF Len(a) + Len(b) = 0 THEN [num |-> 1, den |-> 1]
    ELSE [num |-> 2 * matching_size(a, 1, Len(a), b, 1, Len(b)), den |-> Len(a) + Len(b)]

sim_greater(x, y) == x.num * y.den > y.num * x.den

(* Variant: best_similarity <= 0.7                                         *)
too_loose_inclusive(best_similarity) ==
    10 * best_similarity.num <= 7 * best_similarity.den

(* best_similarity < 0.7                                                   *)
too_loose(best_similarity) == 10 * best_similarity.num < 7 * best_similarity.den

(* re.sub(r'\s+', ' ', title.lower())                                      *)
normalize_title(title) == collapse_whitespace(lower(title))

(***************************************************************************)
(* search_arxiv_for_pdf.  The answer of the search API is                  *)
(*   [ok, well_formed, entries], an entry [title, links], a link           *)
(*   [title, href]; the title of an entry is PyNone when the entry has no  *)
(*   title element or an empty one.                                        *)
(* The result is [value, best, fetched]: the returned value, the position  *)
(* of the entry that was selected and accepted (0 when none), and the href *)
(* the PDF was requested from ("" when no request was made).               *)
(***************************************************************************)
(* The scoring loop from entry k on; best is [index, similarity].          *)
RECURSIVE best_match_from(_, _, _, _)
best_match_from(k, entries, norm_title_orig, best) ==
    IF k > Len(entries) THEN best
    ELSE LET similarity == ratio(norm_title_orig,
                                 normalize_title(strip(entries[k].title.v)))
         IN  best_match_from(k + 1, entries, norm_title_orig,
                             IF sim_greater(similarity, best.similarity)
                             THEN [index |-> k, similarity |-> similarity]
                             ELSE best)

NoMatch == [index |-> 0, similarity |-> [num |-> 0, den |-> 1]]

(* The href of the first link with title="pdf", "" when there is none.     *)
RECURSIVE pdf_link_of(_)
pdf_link_of(links) ==
    IF links = <<>> THEN ""
    ELSE IF Head(links).title = "pdf" THEN Head(links).href
    ELSE pdf_link_of(Tail(links))

SearchResult(value, best, fetched) == [value |-> value, best |-> best, fetched |-> fetched]

search_arxiv_for_pdf(title, api, pdf_response) ==
    LET best == best_match_from(1, api.entries, normalize_title(title.v), NoMatch)
        pdf_link == pdf_link_of(api.entries[best.index].links)
    IN  IF ~truthy(title) THEN SearchResult(PyNone, 0, "")
        ELSE IF title.t # "str" THEN SearchResult(PyNone, 0, "")
        ELSE IF ~api.ok \/ ~api.well_formed THEN SearchResult(PyNone, 0, "")
        ELSE IF api.entries = <<>> THEN SearchResult(PyNone, 0, "")
        ELSE IF \E k \in 1..Len(api.entries) : api.entries[k].title.t = "None"
        THEN SearchResult(PyNone, 0, "")
        ELSE IF too_loose(best.similarity) THEN SearchResult(PyNone, 0, "")
        ELSE IF pdf_link = "" THEN SearchResult(PyNone, best.index, "")
        ELSE IF ~pdf_response.ok THEN SearchResult(PyNone, best.index, pdf_link)
        ELSE SearchResult(PyBytes(pdf_response.content), best.index, pdf_link)

(***************************************************************************)
(* State of one run of the graph fetch_pdfs -> extract_text ->             *)
(* finalize_extraction.                                                    *)
(*   pc               the node, or the place inside fetch_pdfs_node and    *)
(*                    extract_text_node, the run is at; "END" after the    *)
(*                    last node, "crashed" when an exception left a node   *)
(*   n_papers         len(screened_papers); the papers themselves are read *)
(*                    one by one                                           *)
(*   i_fetch, paper, arxiv_id, pdf_bytes, source, failure_reason,          *)
(*   papers_with_pdfs, fetch_stats         locals of fetch_pdfs_node       *)
(*   i_extract, papers_with_text, extraction_stats, total_length           *)
(*                                         locals of extract_text_node     *)
(*   extraction_results                    the key of the graph state      *)
(*   output_file      the contents of extracted_data.json, <<>> when the   *)
(*                    file was not written                                 *)
(* History of the run, for the properties:                                 *)
(*   text_lengths     for each paper extract_text_node has gone through,   *)
(*                    len(sections["full_text"]) of the bundle the         *)
(*                    segmenter returned (-1 when it was not called)       *)
(*   oa_response      what the open-access URL answered to the current     *)
(*                    paper, until the paper is recorded; requested tells  *)
(*                    whether the request was sent                         *)
(*   attempts         the strategy functions called for the current paper, *)
(*                    with what they returned                              *)
(*   stats_before     fetch_stats when the current paper was taken up      *)
(*   crash_at         the source line whose exception ended the run        *)
(***************************************************************************)
VARIABLES pc, n_papers, i_fetch, paper, arxiv_id, pdf_bytes, source,
          failure_reason, papers_with_pdfs, fetch_stats, i_extract,
          papers_with_text, extraction_stats, total_length, text_lengths,
          extraction_results, output_file, attempts, oa_response,
          stats_before, crash_at

fetch_locals == <<paper, arxiv_id, pdf_bytes, source, failure_reason>>
extract_vars == <<i_extract, papers_with_text, extraction_stats, total_length,
                  text_lengths>>
pipe_vars == <<pc, n_papers, i_fetch, paper, arxiv_id, pdf_bytes, source,
               failure_reason, papers_with_pdfs, fetch_stats, i_extract,
               papers_with_text, extraction_stats, total_length, text_lengths,
               extraction_results, output_file, attempts, oa_response,
               stats_before, crash_at>>

(***************************************************************************)
(* State of one call of search_arxiv_for_pdf.                              *)
(*   search_pc            "idle" (no call), "call", "returned"             *)
(*   search_title         the argument                                     *)
(*   search_api           what the search API answers                      *)
(*   search_pdf_response  what the PDF link of an entry answers            *)
(*   search_result        what the call returns, with the entry chosen and *)
(*                        the link fetched                                 *)
(***************************************************************************)
VARIABLES search_pc, search_title, search_api, search_pdf_response, search_result

search_vars == <<search_pc, search_title, search_api, search_pdf_response,
                 search_result>>

(***************************************************************************)
(* State of clean_pdf_text applied to a text and then to its own result.   *)
(*   clean_pc      "idle" (no call), "input", "once", "twice"              *)
(*   clean_input   the text                                                *)
(*   clean_once    clean_pdf_text(clean_input)                             *)
(*   clean_twice   clean_pdf_text(clean_once)                              *)
(***************************************************************************)
VARIABLES clean_pc, clean_input, clean_once, clean_twice

clean_vars == <<clean_pc, clean_input, clean_once, clean_twice>>

fn_vars == <<clean_vars>>

(***************************************************************************)
(* State of one call of extract_text_from_pdf.                             *)
(*   seg_pc          position: "open", "page" (head of the page loop),     *)
(*                   "block" (head of the block loop), "done"              *)
(*   n_pages         len(doc)                                              *)
(*   page_num, blocks, sections, full_text, current_section                *)
(*                   the locals of the function; blocks holds block[4] of  *)
(*                   the sorted blocks of the current page that the loop   *)
(*                   has yet to visit                                      *)
(*   seg_raised      an exception reached the except clause                *)
(* History of the call, for the properties:                                *)
(*   ref_seen        a block has matched the references pattern            *)
(*   stream          the non-empty blocks visited before that, in order    *)
(*   first_page      the non-empty blocks visited on page 0, in order      *)
(*   n_blocks        the number of blocks read from the document so far    *)
(***************************************************************************)
VARIABLES seg_pc, n_pages, page_num, blocks, sections, full_text,
          current_section, seg_raised, ref_seen, stream, first_page, n_blocks

seg_vars == <<seg_pc, n_pages, page_num, blocks, sections, full_text,
              current_section, seg_raised, ref_seen, stream, first_page, n_blocks>>

SegInit ==
    /\ seg_pc = "open"
    /\ n_pages = 0
    /\ page_num = 0
    /\ blocks = <<>>
    /\ sections = EmptySections
    /\ full_text = <<>>
    /\ current_section = "None"
    /\ seg_raised = FALSE
    /\ ref_seen = FALSE
    /\ stream = <<>>
    /\ first_page = <<>>
    /\ n_blocks = 0

(* doc = fitz.open(...); the locals are set up; range(len(doc)) is fixed.  *)
OpenDocument ==
    /\ seg_pc = "open"
    /\ \E n \in 0..MaxPages : n_pages' = n
    /\ seg_pc' = "page"
    /\ UNCHANGED <<page_num, blocks, sections, full_text, current_section,
                   seg_raised, ref_seen, stream, first_page, n_blocks>>
    /\ UNCHANGED <<pipe_vars, search_vars, fn_vars>>

(* page = doc[page_num]; blocks = sorted(page.get_text("blocks"), ...)     *)
ReadPage ==
    /\ seg_pc = "page"
    /\ page_num < n_pages
    /\ \E raw \in PagePool(MaxBlocks - n_blocks) :
          /\ blocks' = block_texts(sorted_blocks(raw))
          /\ n_blocks' = n_blocks + Len(raw)
    /\ seg_pc' = "block"
    /\ UNCHANGED <<n_pages, page_num, sections, full_text, current_section,
                   seg_raised, ref_seen, stream, first_page>>
    /\ UNCHANGED <<pipe_vars, search_vars, fn_vars>>

(* One iteration of "for block in blocks".                                 *)
ProcessBlock ==
    /\ seg_pc = "block"
    /\ blocks # <<>>
    /\ LET text == strip(Head(blocks))
           text_lower == lower(text)
           detected == detect_section(text_lower)
           visited == IF page_num = 0 THEN Append(first_page, text) ELSE first_page
       IN  IF text = ""
           THEN /\ blocks' = Tail(blocks)
                /\ UNCHANGED <<sections, full_text, current_section, ref_seen,
                               stream, first_page>>
           ELSE IF page_num = 0 /\ Len(sections.title) = 0 /\ is_title_candidate(text)
           THEN /\ sections' = [sections EXCEPT !.title = text]
                /\ blocks' = Tail(blocks)
                /\ stream' = IF ref_seen THEN stream ELSE Append(stream, text)
                /\ first_page' = visited
                /\ UNCHANGED <<full_text, current_section, ref_seen>>
           ELSE IF is_references(text_lower)
           THEN /\ blocks' = <<>>
                /\ ref_seen' = TRUE
                /\ first_page' = visited
                /\ UNCHANGED <<sections, full_text, current_section, stream>>
           ELSE IF detected # "None"
           THEN /\ current_section' = detected
                /\ blocks' = Tail(blocks)
                /\ stream' = IF ref_seen THEN stream ELSE Append(stream, text)
                /\ first_page' = visited
                /\ UNCHANGED <<sections, full_text, ref_seen>>
           ELSE /\ sections' = IF current_section # "None"
                               THEN [sections EXCEPT ![current_section] = @ \o " " \o text]
                               ELSE sections
                /\ full_text' = Append(full_text, text)
                /\ blocks' = Tail(blocks)
                /\ stream' = IF ref_seen THEN stream ELSE Append(stream, text)
                /\ first_page' = visited
                /\ UNCHANGED <<current_section, ref_seen>>
    /\ UNCHANGED <<seg_pc, n_pages, page_num, seg_raised, n_blocks>>
    /\ UNCHANGED <<pipe_vars, search_vars, fn_vars>>

(* The block loop is over (exhausted or left by break): next page.         *)
EndPage ==
    /\ seg_pc = "block"
    /\ blocks = <<>>
    /\ page_num' = page_num + 1
    /\ seg_pc' = "page"
    /\ UNCHANGED <<n_pages, blocks, sections, full_text, current_section,
                   seg_raised, ref_seen, stream, first_page, n_blocks>>
    /\ UNCHANGED <<pipe_vars, search_vars, fn_vars>>

(* After the page loop: doc.close(), clean every slot, build full_text.    *)
FinishDocument ==
    /\ seg_pc = "page"
    /\ page_num >= n_pages
    /\ sections' = [k \in DOMAIN sections |->
                       IF k = "full_text" THEN clean_pdf_text(join(" ", full_text))
                       ELSE clean_pdf_text(sections[k])]
    /\ seg_pc' = "done"
    /\ UNCHANGED <<n_pages, page_num, blocks, full_text, current_section,
                   seg_raised, ref_seen, stream, first_page, n_blocks>>
    /\ UNCHANGED <<pipe_vars, search_vars, fn_vars>>

(* Variant: the except clause returns what was gathered so far.            *)
failed_bundle_partial == sections

(* The dict the except clause returns, lines 364-372                       *)
failed_bundle ==
    [title |-> "", introduction |-> "", methods |-> "", results |-> "",
     discussion |-> "", conclusion |-> "", full_text |-> ""]

(* fitz.open or page.get_text raises: the except clause returns the empty  *)
(* bundle.                                                                 *)
SegmenterRaises ==
    /\ seg_pc \in {"open", "page"}
    /\ seg_pc = "page" => page_num < n_pages
    /\ sections' = failed_bundle
    /\ seg_raised' = TRUE
    /\ seg_pc' = "done"
    /\ UNCHANGED <<n_pages, page_num, blocks, full_text, current_section,
                   ref_seen, stream, first_page, n_blocks>>
    /\ UNCHANGED <<pipe_vars, search_vars, fn_vars>>

(***************************************************************************)
(* The inputs of the pipeline model.                                       *)
(***************************************************************************)
MaxPapers == 2

ValidOpenAccess == PyDict([url |-> PyStr("https://oa.example.org/a.pdf")])

(* The screened papers are drawn from this pool: dicts that may lack a     *)
(* field, hold null or hold a value of the wrong type.                     *)
PaperPool ==
    { [title |-> PyStr("Deep Nets"), abstract |-> PyStr("arXiv:2202.00002"),
       url |-> PyStr("https://arxiv.org/abs/2303.00003"),
       externalIds |-> PyDict([ArXiv |-> PyStr("2101.00001")]),
       openAccessPdf |-> ValidOpenAccess],
      [title |-> PyStr("Deep Nets"), abstract |-> PyStr("We study nets."),
       url |-> PyStr("https://example.org/p/2"),
       externalIds |-> PyDict([DOI |-> PyStr("10.1/x")]),
       openAccessPdf |-> ValidOpenAccess],
      [title |-> PyStr("Deep Nets")],
      [title |-> PyStr("Deep Nets"), abstract |-> PyStr("See arXiv:2101.00001v2."),
       url |-> PyStr("https://arxiv.org/abs/2303.00003"),
       externalIds |-> PyDict([ArXiv |-> PyStr(""), DOI |-> PyStr("10.1/x")]),
       openAccessPdf |-> PyNone],
      [title |-> PyStr("Deep Nets"), abstract |-> PyNone,
       url |-> PyStr("https://arxiv.org/abs/hep-th/9901001"),
       externalIds |-> PyNone, openAccessPdf |-> PyDict([url |-> PyStr("/a.pdf")])],
      [abstract |-> PyStr(""), openAccessPdf |-> ValidOpenAccess],
      [title |-> PyNone, openAccessPdf |-> ValidOpenAccess],
      [title |-> PyStr("Deep Nets"), url |-> PyNone],
      [title |-> PyStr("Deep Nets"), abstract |-> PyInt("7")],
      [title |-> PyStr("Deep Nets"), externalIds |-> PyDict([arxiv |-> PyStr("2101.00001")]),
       openAccessPdf |-> PyStr("https://oa.example.org/a.pdf")],
      [title |-> PyStr("Deep Nets"), openAccessPdf |-> PyDict([url |-> PyInt("7")])],
      [title |-> PyStr("Deep Nets"), abstract |-> PyStr("arxiv:2202.00002"),
       url |-> PyStr("https://arxiv.org/list/cs.LG")] }

(* What the arXiv PDF endpoint may answer.                                 *)
ArxivResponses ==
    { [ok |-> FALSE, content |-> ""], [ok |-> TRUE, content |-> ""],
      [ok |-> TRUE, content |-> "%PDF-1.5"] }

(* What an open-access URL may answer.                                     *)
OpenAccessBodies == {"", "%PD", "%PDF", "%PDF-1.4", "%pdf", "PDF%", "<html>"}
OpenAccessResponses ==
    {[ok |-> FALSE, content |-> "%PDF-1.4"]}
        \cup {[ok |-> TRUE, content |-> c] : c \in OpenAccessBodies}

PdfLink == [title |-> "pdf", href |-> "http://arxiv.org/pdf/2101.00001v1"]
HtmlLink == [title |-> "", href |-> "http://arxiv.org/abs/2101.00001v1"]

(* What the search API may answer to the pipeline.                         *)
SearchApiResponses ==
    { [ok |-> FALSE, well_formed |-> TRUE, entries |-> <<>>],
      [ok |-> TRUE, well_formed |-> FALSE, entries |-> <<>>],
      [ok |-> TRUE, well_formed |-> TRUE, entries |-> <<>>],
      [ok |-> TRUE, well_formed |-> TRUE,
       entries |-> <<[title |-> PyStr("Shallow Seas"), links |-> <<HtmlLink, PdfLink>>],
                     [title |-> PyStr(" Deep  Nets\n"), links |-> <<HtmlLink, PdfLink>>]>>],
      [ok |-> TRUE, well_formed |-> TRUE,
       entries |-> <<[title |-> PyStr("Shallow Seas"), links |-> <<HtmlLink, PdfLink>>]>>] }

NewFetchStats(n) ==
    [total_papers |-> n, arxiv_direct |-> 0, arxiv_search |-> 0, open_access |-> 0,
     failed |-> 0, failure_reasons |-> <<>>]

NewExtractionStats(n) ==
    [total_pdfs |-> n, successful_extractions |-> 0, failed_extractions |-> 0,
     avg_text_length |-> [num |-> 0, den |-> 1]]

NoRequest == [requested |-> FALSE, ok |-> FALSE, content |-> ""]

(* The graph is invoked on n screened papers.                              *)
PipeInitWith(n) ==
    /\ pc = "fetch_pdfs"
    /\ n_papers = n
    /\ i_fetch = 0
    /\ paper = <<>>
    /\ arxiv_id = PyNone
    /\ pdf_bytes = PyNone
    /\ source = PyNone
    /\ failure_reason = PyNone
    /\ papers_with_pdfs = <<>>
    /\ fetch_stats = NewFetchStats(0)
    /\ i_extract = 0
    /\ papers_with_text = <<>>
    /\ extraction_stats = NewExtractionStats(0)
    /\ total_length = 0
    /\ text_lengths = <<>>
    /\ extraction_results = <<>>
    /\ output_file = <<>>
    /\ attempts = <<>>
    /\ oa_response = NoRequest
    /\ stats_before = NewFetchStats(0)
    /\ crash_at = 0

PipeInit == \E n \in 0..MaxPapers : PipeInitWith(n)

(* An exception leaves the node: the run ends.                             *)
Crash(line) == pc' = "crashed" /\ crash_at' = line

(* fetch_pdfs_node, lines 390-402                                          *)
FetchStart ==
    /\ pc = "fetch_pdfs"
    /\ papers_with_pdfs' = <<>>
    /\ fetch_stats' = NewFetchStats(n_papers)
    /\ pc' = "fetch_loop"
    /\ UNCHANGED <<n_papers, i_fetch, fetch_locals, extract_vars, extraction_results,
                   output_file, attempts, oa_response, stats_before, crash_at>>
    /\ UNCHANGED <<seg_vars, search_vars, fn_vars>>

(* The head of the loop over the papers, lines 404-409: the progress line  *)
(* slices the title.                                                       *)
FetchNextPaper ==
    /\ pc = "fetch_loop"
    /\ i_fetch < n_papers
    /\ \E p \in PaperPool :
          /\ paper' = p
          /\ IF subscriptable(get(p, "title", PyStr("Untitled")))
             THEN /\ pc' = "strategy1"
                  /\ pdf_bytes' = PyNone
                  /\ source' = PyNone
                  /\ failure_reason' = PyNone
                  /\ UNCHANGED crash_at
             ELSE /\ Crash(405)
                  /\ UNCHANGED <<pdf_bytes, source, failure_reason>>
    /\ i_fetch' = i_fetch + 1
    /\ attempts' = <<>>
    /\ oa_response' = NoRequest
    /\ stats_before' = fetch_stats
    /\ UNCHANGED <<n_papers, arxiv_id, papers_with_pdfs, fetch_stats, extract_vars,
                   extraction_results, output_file>>
    /\ UNCHANGED <<seg_vars, search_vars, fn_vars>>

Attempt(strategy, value, reason) ==
    [strategy |-> strategy, ok |-> truthy(value), reason |-> reason]

(* Variant: every success is counted as a direct arXiv hit.                *)
CountSuccess_direct(stats, counter) == [stats EXCEPT !.arxiv_direct = @ + 1]

(* fetch_stats[counter] += 1 (lines 417, 424, 434)                         *)
CountSuccess(stats, counter) == [stats EXCEPT ![counter] = @ + 1]

(* Strategy 1, lines 412-417                                               *)
Strategy1 ==
    /\ pc = "strategy1"
    /\ LET id == extract_arxiv_id_from_paper(paper)
       IN  IF id.raised
           THEN /\ Crash(412)
                /\ UNCHANGED <<arxiv_id, pdf_bytes, source, fetch_stats, attempts>>
           ELSE /\ arxiv_id' = id.value
                /\ IF truthy(id.value)
                   THEN \E response \in ArxivResponses :
                           LET fetched == fetch_pdf_from_arxiv(id.value, response)
                           IN  IF fetched.raised
                               THEN /\ Crash(414)
                                    /\ UNCHANGED <<pdf_bytes, source, fetch_stats,
                                                   attempts>>
                               ELSE /\ pdf_bytes' = fetched.value
                                    /\ attempts' = Append(attempts,
                                           Attempt("arxiv_direct", fetched.value,
                                                   failure_reason))
                                    /\ IF truthy(fetched.value)
                                       THEN /\ source' = PyStr("arxiv_direct")
                                            /\ fetch_stats' =
                                                  CountSuccess(fetch_stats, "arxiv_direct")
                                       ELSE UNCHANGED <<source, fetch_stats>>
                                    /\ pc' = "strategy2"
                                    /\ UNCHANGED crash_at
                   ELSE /\ pc' = "strategy2"
                        /\ UNCHANGED <<pdf_bytes, source, fetch_stats, attempts, crash_at>>
    /\ UNCHANGED <<n_papers, i_fetch, paper, failure_reason, papers_with_pdfs,
                   extract_vars, extraction_results, output_file, oa_response,
                   stats_before>>
    /\ UNCHANGED <<seg_vars, search_vars, fn_vars>>

(* Variant: the strategies are not guarded by "if not pdf_bytes".          *)
still_needed_always(bytes) == TRUE

(* if not pdf_bytes: (lines 420 and 430)                                   *)
still_needed(bytes) == ~truthy(bytes)

(* elif open_access_info and open_access_info.get("url"): (lines 426-427)  *)
open_access_reason(open_access_info, reason) ==
    IF truthy(open_access_info) /\ truthy(get(open_access_info.d, "url", PyNone))
    THEN PyStr("OpenAccess URL invalid or not a PDF")
    ELSE reason

(* Strategy 2, lines 420-427                                               *)
Strategy2 ==
    /\ pc = "strategy2"
    /\ IF still_needed(pdf_bytes)
       THEN LET open_access_info == get(paper, "openAccessPdf", PyNone)
            IN  \E response \in OpenAccessResponses :
                   LET fetched == fetch_pdf_from_open_access(open_access_info, response)
                       reason == open_access_reason(open_access_info, failure_reason)
                   IN  /\ oa_response' =
                              IF open_access_requested(open_access_info)
                              THEN [requested |-> TRUE, ok |-> response.ok,
                                    content |-> response.content]
                              ELSE NoRequest
                       /\ IF fetched.raised
                          THEN /\ Crash(422)
                               /\ UNCHANGED <<pdf_bytes, source, failure_reason,
                                              fetch_stats, attempts>>
                          ELSE IF truthy(fetched.value)
                          THEN /\ pdf_bytes' = fetched.value
                               /\ attempts' = Append(attempts,
                                      Attempt("open_access", fetched.value,
                                              failure_reason))
                               /\ source' = PyStr("open_access")
                               /\ fetch_stats' = CountSuccess(fetch_stats, "open_access")
                               /\ pc' = "strategy3"
                               /\ UNCHANGED <<failure_reason, crash_at>>
                          ELSE IF truthy(open_access_info) /\ open_access_info.t # "dict"
                          THEN /\ pdf_bytes' = fetched.value
                               /\ attempts' = Append(attempts,
                                      Attempt("open_access", fetched.value,
                                              failure_reason))
                               /\ Crash(426)
                               /\ UNCHANGED <<source, failure_reason, fetch_stats>>
                          ELSE /\ pdf_bytes' = fetched.value
                               /\ attempts' = Append(attempts,
                                      Attempt("open_access", fetched.value, reason))
                               /\ failure_reason' = reason
                               /\ pc' = "strategy3"
                               /\ UNCHANGED <<source, fetch_stats, crash_at>>
       ELSE /\ pc' = "strategy3"
            /\ UNCHANGED <<pdf_bytes, source, failure_reason, fetch_stats, attempts,
                           oa_response, crash_at>>
    /\ UNCHANGED <<n_papers, i_fetch, paper, arxiv_id, papers_with_pdfs,
                   extract_vars, extraction_results, output_file, stats_before>>
    /\ UNCHANGED <<seg_vars, search_vars, fn_vars>>

(* Variant: failure_reason = "No arXiv match found by title"               *)
search_failure_reason_overwrite(reason) == PyStr("No arXiv match found by title")

(* failure_reason = failure_reason or "No arXiv match found by title"      *)
search_failure_reason(reason) ==
    IF truthy(reason) THEN reason ELSE PyStr("No arXiv match found by title")

(* Strategy 3, lines 430-436                                               *)
Strategy3 ==
    /\ pc = "strategy3"
    /\ IF still_needed(pdf_bytes)
       THEN \E api \in SearchApiResponses, pdf_response \in ArxivResponses :
               LET fetched == search_arxiv_for_pdf(get(paper, "title", PyNone), api,
                                                   pdf_response).value
                   reason == search_failure_reason(failure_reason)
               IN  /\ pdf_bytes' = fetched
                   /\ IF truthy(fetched)
                      THEN /\ attempts' = Append(attempts,
                                  Attempt("arxiv_search", fetched, failure_reason))
                           /\ source' = PyStr("arxiv_search")
                           /\ fetch_stats' = CountSuccess(fetch_stats, "arxiv_search")
                           /\ UNCHANGED failure_reason
                      ELSE /\ attempts' = Append(attempts,
                                  Attempt("arxiv_search", fetched, reason))
                           /\ failure_reason' = reason
                           /\ UNCHANGED <<source, fetch_stats>>
       ELSE UNCHANGED <<pdf_bytes, source, failure_reason, fetch_stats, attempts>>
    /\ pc' = "record"
    /\ UNCHANGED <<n_papers, i_fetch, paper, arxiv_id, papers_with_pdfs,
                   extract_vars, extraction_results, output_file, oa_response,
                   stats_before, crash_at>>
    /\ UNCHANGED <<seg_vars, search_vars, fn_vars>>

(* {**paper, "pdf_bytes": pdf_bytes, "pdf_source": source}                 *)
with_pdf(p, bytes, src) ==
    [k \in DOMAIN p \cup {"pdf_bytes", "pdf_source"} |->
        IF k = "pdf_bytes" THEN bytes ELSE IF k = "pdf_source" THEN src ELSE p[k]]

(* failure_reason or "Unknown"                                             *)
recorded_reason(reason) == IF truthy(reason) THEN reason.v ELSE "Unknown"

(* The end of the loop body, lines 438-454                                 *)
RecordPaper ==
    /\ pc = "record"
    /\ IF truthy(pdf_bytes)
       THEN /\ papers_with_pdfs' = Append(papers_with_pdfs, with_pdf(paper, pdf_bytes, source))
            /\ pc' = "fetch_loop"
            /\ UNCHANGED <<fetch_stats, crash_at>>
       ELSE IF ~subscriptable(get(paper, "title", PyStr("")))
       THEN /\ fetch_stats' = [fetch_stats EXCEPT !.failed = @ + 1]
            /\ Crash(448)
            /\ UNCHANGED papers_with_pdfs
       ELSE /\ fetch_stats' =
                  [fetch_stats EXCEPT
                      !.failed = @ + 1,
                      !.failure_reasons =
                          Append(@, [title |-> take(get(paper, "title", PyStr("")).v, 60),
                                     reason |-> recorded_reason(failure_reason)])]
            /\ pc' = "fetch_loop"
            /\ UNCHANGED <<papers_with_pdfs, crash_at>>
    /\ oa_response' = NoRequest
    /\ UNCHANGED <<n_papers, i_fetch, fetch_locals, extract_vars, extraction_results,
                   output_file, attempts, stats_before>>
    /\ UNCHANGED <<seg_vars, search_vars, fn_vars>>

(* After the loop, lines 456-470: the summary divides by total_papers.     *)
FetchReturn ==
    /\ pc = "fetch_loop"
    /\ i_fetch >= n_papers
    /\ IF fetch_stats.total_papers = 0
       THEN /\ Crash(464)
            /\ UNCHANGED extraction_results
       ELSE /\ extraction_results' = [fetch_stats |-> fetch_stats]
            /\ pc' = "extract_text"
            /\ UNCHANGED crash_at
    /\ UNCHANGED <<n_papers, i_fetch, fetch_locals, papers_with_pdfs, fetch_stats,
                   extract_vars, output_file, attempts, oa_response, stats_before>>
    /\ UNCHANGED <<seg_vars, search_vars, fn_vars>>

(***************************************************************************)
(* extract_text_node.  What extract_text_from_pdf returns for the bytes of *)
(* a paper depends on the PDF alone; the pipeline model draws it from the  *)
(* bundles below (the empty bundle is what a failed parse returns).        *)
(***************************************************************************)
MinTextLength == 500

(* s * n                                                                   *)
RECURSIVE repeat(_, _)
repeat(s, n) ==
    IF n = 0 THEN ""
    ELSE IF n % 2 = 0 THEN LET half == repeat(s, n \div 2) IN half \o half
    ELSE s \o repeat(s, n - 1)

BundlePool ==
    { EmptySections,
      [EmptySections EXCEPT !.title = "Deep Nets", !.full_text = repeat("a", MinTextLength)],
      [EmptySections EXCEPT !.title = "Deep Nets", !.introduction = "Models are trained.",
                            !.full_text = repeat("a", MinTextLength + 1)] }

(* Variant: len(sections["full_text"]) >= 500                              *)
viable_inclusive(bundle) ==
    bundle.full_text # "" /\ Len(bundle.full_text) >= MinTextLength

(* sections["full_text"] and len(sections["full_text"]) > 500              *)
viable(bundle) == bundle.full_text # "" /\ Len(bundle.full_text) > MinTextLength

(* Variant: the record is passed on as it is.                              *)
without_pdf_bytes_kept(p) == p

(* {k: v for k, v in paper.items() if k != "pdf_bytes"}                    *)
without_pdf_bytes(p) == [k \in DOMAIN p \ {"pdf_bytes"} |-> p[k]]

(* {**paper_data, "extracted_text": sections}                              *)
with_text(p, bundle) ==
    [k \in DOMAIN p \cup {"extracted_text"} |->
        IF k = "extracted_text" THEN PyDict(bundle) ELSE p[k]]

(* lines 485-497                                                           *)
ExtractStart ==
    /\ pc = "extract_text"
    /\ papers_with_text' = <<>>
    /\ extraction_stats' = NewExtractionStats(Len(papers_with_pdfs))
    /\ total_length' = 0
    /\ text_lengths' = <<>>
    /\ i_extract' = 0
    /\ pc' = "extract_loop"
    /\ UNCHANGED <<n_papers, i_fetch, fetch_locals, papers_with_pdfs, fetch_stats,
                   extraction_results, output_file, attempts, oa_response,
                   stats_before, crash_at>>
    /\ UNCHANGED <<seg_vars, search_vars, fn_vars>>

(* Variant: a paper without usable text is skipped without being counted.  *)
count_failed_extraction_skipped(stats) == stats

(* extraction_stats["failed_extractions"] += 1 (lines 505 and 529)         *)
count_failed_extraction(stats) == [stats EXCEPT !.failed_extractions = @ + 1]

(* One iteration of the loop over papers_with_pdfs, lines 499-530          *)
ExtractPaper ==
    /\ pc = "extract_loop"
    /\ i_extract < Len(papers_with_pdfs)
    /\ i_extract' = i_extract + 1
    /\ LET p == papers_with_pdfs[i_extract + 1]
       IN  IF ~subscriptable(get(p, "title", PyStr("Untitled")))
           THEN /\ Crash(500)
                /\ UNCHANGED <<papers_with_text, extraction_stats, total_length,
                               text_lengths>>
           ELSE IF ~truthy(get(p, "pdf_bytes", PyNone))
           THEN /\ extraction_stats' = count_failed_extraction(extraction_stats)
                /\ text_lengths' = Append(text_lengths, -1)
                /\ UNCHANGED <<papers_with_text, total_length, pc, crash_at>>
           ELSE \E bundle \in BundlePool :
                   /\ text_lengths' = Append(text_lengths, Len(bundle.full_text))
                   /\ IF viable(bundle)
                      THEN /\ papers_with_text' =
                                 Append(papers_with_text, with_text(without_pdf_bytes(p), bundle))
                           /\ extraction_stats' =
                                 [extraction_stats EXCEPT !.successful_extractions = @ + 1]
                           /\ total_length' = total_length + Len(bundle.full_text)
                      ELSE /\ extraction_stats' =
                                 count_failed_extraction(extraction_stats)
                           /\ UNCHANGED <<papers_with_text, total_length>>
                   /\ UNCHANGED <<pc, crash_at>>
    /\ UNCHANGED <<n_papers, i_fetch, fetch_locals, papers_with_pdfs, fetch_stats,
                   extraction_results, output_file, attempts, oa_response, stats_before>>
    /\ UNCHANGED <<seg_vars, search_vars, fn_vars>>

(* Variant: current_results = {"extraction_stats": extraction_stats}       *)
with_extraction_stats_only(current_results, stats) == [extraction_stats |-> stats]

(* current_results["extraction_stats"] = extraction_stats (lines 544-545)  *)
with_extraction_stats(current_results, stats) ==
    [k \in DOMAIN current_results \cup {"extraction_stats"} |->
        IF k = "extraction_stats" THEN stats ELSE current_results[k]]

(* After the loop, lines 532-550                                           *)
ExtractReturn ==
    /\ pc = "extract_loop"
    /\ i_extract >= Len(papers_with_pdfs)
    /\ LET final_stats ==
               IF extraction_stats.successful_extractions > 0
               THEN [extraction_stats EXCEPT
                        !.avg_text_length = [num |-> total_length,
                                             den |-> extraction_stats.successful_extractions]]
               ELSE extraction_stats
       IN  /\ extraction_stats' = final_stats
           /\ extraction_results' = with_extraction_stats(extraction_results, final_stats)
    /\ pc' = "finalize_extraction"
    /\ UNCHANGED <<n_papers, i_fetch, fetch_locals, papers_with_pdfs, fetch_stats,
                   i_extract, papers_with_text, total_length, text_lengths,
                   output_file, attempts,
                   oa_response, stats_before, crash_at>>
    /\ UNCHANGED <<seg_vars, search_vars, fn_vars>>

(***************************************************************************)
(* finalize_extraction_node                                                *)
(***************************************************************************)
FailureReasonLimit == 10

(* Variant: the list is not cut.                                           *)
first_reasons_uncut(reasons) == reasons

(* fetch_stats.get("failure_reasons", [])[:10]                             *)
first_reasons(reasons) == take(reasons, FailureReasonLimit)

(* lines 572-588; the timestamp is the clock's                             *)
output_data(papers, results) ==
    LET f == get(results, "fetch_stats", <<>>)
        e == get(results, "extraction_stats", <<>>)
    IN  [metadata |->
            [extraction_timestamp |-> "%Y%m%d_%H%M%S",
             total_papers |-> get(f, "total_papers", 0),
             pdfs_fetched |-> get(f, "arxiv_direct", 0) + get(f, "arxiv_search", 0)
                                + get(f, "open_access", 0),
             text_extracted |-> get(e, "successful_extractions", 0),
             extraction_method |-> "pymupdf_full_text",
             fetch_sources |-> [arxiv_direct |-> get(f, "arxiv_direct", 0),
                                arxiv_search |-> get(f, "arxiv_search", 0),
                                open_access |-> get(f, "open_access", 0)],
             failed_fetches |-> get(f, "failed", 0),
             failure_reasons |-> first_reasons(get(f, "failure_reasons", <<>>))],
         papers |-> papers]

(* Variant: the write is not inside try/except.                            *)
after_write_unguarded(written) == IF written THEN "END" ELSE "crashed"

(* Where the node is after the try/except around the write, lines 597-602: *)
(* at its return, and the graph at END, whether the write succeeded or not *)
after_write(written) == "END"

(* lines 565-609: the write may fail; the node returns all the same        *)
Finalize ==
    /\ pc = "finalize_extraction"
    /\ \E written \in BOOLEAN :
          /\ output_file' = IF written
                            THEN <<output_data(papers_with_text, extraction_results)>>
                            ELSE <<>>
          /\ pc' = after_write(written)
    /\ UNCHANGED <<n_papers, i_fetch, fetch_locals, papers_with_pdfs, fetch_stats,
                   extract_vars, extraction_results, attempts, oa_response,
                   stats_before, crash_at>>
    /\ UNCHANGED <<seg_vars, search_vars, fn_vars>>

(***************************************************************************)
(* search_arxiv_for_pdf on its own: one call, on a title and the answers   *)
(* of the search API and of the PDF link.                                  *)
(***************************************************************************)
(* params = {..., "max_results": 3}                                        *)
max_results == 3

SearchTitles == {PyStr("Deep Nets!"), PyStr(""), PyNone}

EntryLinks(id) ==
    { <<[title |-> "", href |-> "http://arxiv.org/abs/" \o id],
        [title |-> "pdf", href |-> "http://arxiv.org/pdf/" \o id]>>,
      <<[title |-> "", href |-> "http://arxiv.org/abs/" \o id]>> }

(* The entries the API may list: titles at similarity 1 (after             *)
(* normalisation), 7/10, 16/23 and below to "deep nets!", or no title.     *)
EntryTitles ==
    { <<PyStr(" DEEP  Nets!\n"), "1">>, <<PyStr("Deep Nezzz"), "2">>,
      <<PyStr("Deep Netxxxxx"), "3">>, <<PyStr("Shallow Seas"), "4">> }

EntryPool ==
    {[title |-> PyNone, links |-> <<>>]} \cup
    UNION {{[title |-> e[1], links |-> l] : l \in EntryLinks(e[2])} : e \in EntryTitles}

EntryLists(n) == UNION {[1..k -> EntryPool] : k \in 0..n}

SearchApiPool ==
    { [ok |-> FALSE, well_formed |-> TRUE, entries |-> <<>>],
      [ok |-> TRUE, well_formed |-> FALSE, entries |-> <<>>] } \cup
    {[ok |-> TRUE, well_formed |-> TRUE, entries |-> es] : es \in EntryLists(max_results)}

NoSearchResult == SearchResult(PyNone, 0, "")

SearchIdle ==
    /\ search_pc = "idle"
    /\ search_title = PyNone
    /\ search_api = [ok |-> FALSE, well_formed |-> TRUE, entries |-> <<>>]
    /\ search_pdf_response = [ok |-> FALSE, content |-> ""]
    /\ search_result = NoSearchResult

SearchInit ==
    /\ search_pc = "call"
    /\ search_title \in SearchTitles
    /\ search_api \in SearchApiPool
    /\ search_pdf_response \in ArxivResponses
    /\ search_result = NoSearchResult

(* The call runs to its return.                                            *)
SearchArxiv ==
    /\ search_pc = "call"
    /\ search_result' = search_arxiv_for_pdf(search_title, search_api,
                                             search_pdf_response)
    /\ search_pc' = "returned"
    /\ UNCHANGED <<search_title, search_api, search_pdf_response>>
    /\ UNCHANGED <<seg_vars, pipe_vars, fn_vars>>

(***************************************************************************)
(* clean_pdf_text on its own: a text built from a few pieces, cleaned, and *)
(* the result cleaned again.                                               *)
(***************************************************************************)
MaxPieces == 4

(* The pieces: words, a line the header rule drops, a number, a short      *)
(* line, a notice, two halves of a word the notice rule looks for, and     *)
(* white space.                                                            *)
TextPieces == {"Deep", "page", "7", "ab", "(c)", "copy", "right", " ", "\t", "\n"}

RECURSIVE concat(_)
concat(pieces) == IF pieces = <<>> THEN "" ELSE Head(pieces) \o concat(Tail(pieces))

CleanInputs == {concat(pieces) : pieces \in UNION {[1..n -> TextPieces] : n \in 0..MaxPieces}}

CleanIdle ==
    /\ clean_pc = "idle"
    /\ clean_input = ""
    /\ clean_once = ""
    /\ clean_twice = ""

FnIdle == CleanIdle

CleanInit ==
    /\ clean_pc = "input"
    /\ clean_input \in CleanInputs
    /\ clean_once = ""
    /\ clean_twice = ""

CleanOnce ==
    /\ clean_pc = "input"
    /\ clean_once' = clean_pdf_text(clean_input)
    /\ clean_pc' = "once"
    /\ UNCHANGED <<clean_input, clean_twice>>
    /\ UNCHANGED <<seg_vars, pipe_vars, search_vars>>

CleanTwice ==
    /\ clean_pc = "once"
    /\ clean_twice' = clean_pdf_text(clean_once)
    /\ clean_pc' = "twice"
    /\ UNCHANGED <<clean_input, clean_once>>
    /\ UNCHANGED <<seg_vars, pipe_vars, search_vars>>

PipeNext ==
    \/ FetchStart
    \/ FetchNextPaper
    \/ Strategy1
    \/ Strategy2
    \/ Strategy3
    \/ RecordPaper
    \/ FetchReturn
    \/ ExtractStart
    \/ ExtractPaper
    \/ ExtractReturn
    \/ Finalize

vars == <<seg_vars, pipe_vars, search_vars, fn_vars>>

Init == PipeInit /\ SegInit /\ SearchIdle /\ FnIdle

Next == PipeNext

Spec == Init /\ [][Next]_vars


SegNext ==
    \/ OpenDocument
    \/ ReadPage
    \/ ProcessBlock
    \/ EndPage
    \/ FinishDocument
    \/ SegmenterRaises


(* The segmenter on its own: one call of extract_text_from_pdf.            *)
InitSeg == SegInit /\ PipeInitWith(0) /\ SearchIdle /\ FnIdle

NextSeg == SegNext

SpecSeg == InitSeg /\ [][NextSeg]_vars

(* The title search on its own: one call of search_arxiv_for_pdf.          *)
InitSearch == SearchInit /\ SegInit /\ PipeInitWith(0) /\ FnIdle

NextSearch == SearchArxiv

SpecSearch == InitSearch /\ [][NextSearch]_vars

(***************************************************************************)
(* extract_text_node together with the segmenter: the node on two fetched  *)
(* papers, each call of extract_text_from_pdf run block by block.  The run *)
(* starts inside the first call; pc is "segmenting" during a call.         *)
(***************************************************************************)
FetchedDirect ==
    with_pdf([title |-> PyStr("Deep Nets"), abstract |-> PyStr("arXiv:2202.00002"),
              url |-> PyStr("https://arxiv.org/abs/2303.00003"),
              externalIds |-> PyDict([ArXiv |-> PyStr("2101.00001")]),
              openAccessPdf |-> ValidOpenAccess],
             PyBytes("%PDF-1.5"), PyStr("arxiv_direct"))

FetchedBySearch ==
    with_pdf([title |-> PyStr("Deep Nets")], PyBytes("%PDF-1.5"), PyStr("arxiv_search"))

(* The state fetch_pdfs_node leaves for these two papers, and the first    *)
(* iteration of extract_text_node up to its call of the segmenter.         *)
InitExtract ==
    /\ SegInit /\ SearchIdle /\ FnIdle
    /\ pc = "segmenting"
    /\ n_papers = 2
    /\ i_fetch = 2
    /\ paper = [title |-> PyStr("Deep Nets")]
    /\ arxiv_id = PyNone
    /\ pdf_bytes = PyBytes("%PDF-1.5")
    /\ source = PyStr("arxiv_search")
    /\ failure_reason = PyNone
    /\ papers_with_pdfs = <<FetchedDirect, FetchedBySearch>>
    /\ fetch_stats = [NewFetchStats(2) EXCEPT !.arxiv_direct = 1, !.arxiv_search = 1]
    /\ i_extract = 1
    /\ papers_with_text = <<>>
    /\ extraction_stats = NewExtractionStats(2)
    /\ total_length = 0
    /\ text_lengths = <<>>
    /\ extraction_results =
          [fetch_stats |-> [NewFetchStats(2) EXCEPT !.arxiv_direct = 1, !.arxiv_search = 1]]
    /\ output_file = <<>>
    /\ attempts = <<Attempt("open_access", PyNone, PyNone),
                    Attempt("arxiv_search", PyBytes("%PDF-1.5"), PyNone)>>
    /\ oa_response = NoRequest
    /\ stats_before = [NewFetchStats(2) EXCEPT !.arxiv_direct = 1]
    /\ crash_at = 0

(* extract_text_from_pdf has returned sections: lines 510-530 for the      *)
(* paper, then the head of the loop and lines 499-508 for the next one.    *)
ExtractSegmented ==
    /\ pc = "segmenting"
    /\ seg_pc = "done"
    /\ text_lengths' = Append(text_lengths, Len(sections.full_text))
    /\ LET p == papers_with_pdfs[i_extract]
       IN  IF viable(sections)
           THEN /\ papers_with_text' =
                      Append(papers_with_text, with_text(without_pdf_bytes(p), sections))
                /\ extraction_stats' =
                      [extraction_stats EXCEPT !.successful_extractions = @ + 1]
                /\ total_length' = total_length + Len(sections.full_text)
           ELSE /\ extraction_stats' =
                      count_failed_extraction(extraction_stats)
                /\ UNCHANGED <<papers_with_text, total_length>>
    /\ IF i_extract < Len(papers_with_pdfs)
       THEN /\ i_extract' = i_extract + 1
            /\ seg_pc' = "open"
            /\ n_pages' = 0
            /\ page_num' = 0
            /\ blocks' = <<>>
            /\ sections' = EmptySections
            /\ full_text' = <<>>
            /\ current_section' = "None"
            /\ seg_raised' = FALSE
            /\ ref_seen' = FALSE
            /\ stream' = <<>>
            /\ first_page' = <<>>
            /\ n_blocks' = 0
            /\ UNCHANGED pc
       ELSE /\ pc' = "extract_loop"
            /\ UNCHANGED <<i_extract, seg_vars>>
    /\ UNCHANGED <<n_papers, i_fetch, fetch_locals, papers_with_pdfs, fetch_stats,
                   extraction_results, output_file, attempts, oa_response,
                   stats_before, crash_at>>
    /\ UNCHANGED <<search_vars, fn_vars>>

NextExtract ==
    \/ SegNext
    \/ ExtractSegmented
    \/ ExtractReturn
    \/ Finalize

SpecExtract == InitExtract /\ [][NextExtract]_vars

(* The cleaner on its own.                                                 *)
InitClean == CleanInit /\ SegInit /\ PipeInitWith(0) /\ SearchIdle

NextClean == CleanOnce \/ CleanTwice

SpecClean == InitClean /\ [][NextClean]_vars

(***************************************************************************)
(* finalize_extraction_node on its own, after a run in which every paper   *)
(* failed in fetch_pdfs_node: the failure list may be longer than the      *)
(* limit of the metadata.                                                  *)
(***************************************************************************)
MaxFailures == 11

OpenAccessReason == "OpenAccess URL invalid or not a PDF"
NoMatchReason == "No arXiv match found by title"

(* A paper whose three strategies fail with the reason given.              *)
FailedPaper(reason) ==
    IF reason = OpenAccessReason
    THEN [title |-> PyStr("Deep Nets"), abstract |-> PyStr("We study nets."),
          url |-> PyStr("https://example.org/p/2"),
          externalIds |-> PyDict([DOI |-> PyStr("10.1/x")]),
          openAccessPdf |-> ValidOpenAccess]
    ELSE [title |-> PyStr("Deep Nets")]

FailureEntry(reason) == [title |-> "Deep Nets", reason |-> reason]

(* fetch_stats after the papers failed with these reasons, in this order.  *)
AllFailedStats(reasons) ==
    [NewFetchStats(Len(reasons)) EXCEPT
        !.failed = Len(reasons),
        !.failure_reasons = [k \in DOMAIN reasons |-> FailureEntry(reasons[k])]]

(* The state the two earlier nodes leave for such a run.                   *)
FinalizeInitWith(reasons) ==
    LET n == Len(reasons)
        last == reasons[n]
        after_open_access == IF last = OpenAccessReason THEN PyStr(last) ELSE PyNone
    IN  /\ pc = "finalize_extraction"
        /\ n_papers = n
        /\ i_fetch = n
        /\ paper = FailedPaper(last)
        /\ arxiv_id = PyNone
        /\ pdf_bytes = PyNone
        /\ source = PyNone
        /\ failure_reason = PyStr(last)
        /\ papers_with_pdfs = <<>>
        /\ fetch_stats = AllFailedStats(reasons)
        /\ i_extract = 0
        /\ papers_with_text = <<>>
        /\ extraction_stats = NewExtractionStats(0)
        /\ total_length = 0
        /\ text_lengths = <<>>
        /\ extraction_results = [fetch_stats |-> AllFailedStats(reasons),
                                 extraction_stats |-> NewExtractionStats(0)]
        /\ output_file = <<>>
        /\ attempts = <<Attempt("open_access", PyNone, after_open_access),
                        Attempt("arxiv_search", PyNone, PyStr(last))>>
        /\ oa_response = NoRequest
        /\ stats_before =
              [AllFailedStats(SubSeq(reasons, 1, n - 1)) EXCEPT !.total_papers = n]
        /\ crash_at = 0

InitFinalize ==
    /\ SegInit /\ SearchIdle /\ FnIdle
    /\ \E n \in 1..MaxFailures :
          \E reasons \in [1..n -> {OpenAccessReason, NoMatchReason}] :
             FinalizeInitWith(reasons)

NextFinalize == Finalize

SpecFinalize == InitFinalize /\ [][NextFinalize]_vars

(***************************************************************************)
(* Properties of the segmenter (checked under SpecSeg).                    *)
(***************************************************************************)
InFullTextList(text) == \E j \in 1..Len(full_text) : full_text[j] = text

(* C1: once a block has matched the references/bibliography pattern, no    *)
(* block visited after it, on the same page or on a later page, is         *)
(* appended to one of the sections or to full_text, and none changes the   *)
(* current section.                                                        *)
C1_ReferencesBoundary ==
    [][(ref_seen /\ seg_pc' # "done") =>
          /\ sections' = sections
          /\ full_text' = full_text
          /\ current_section' = current_section]_vars

(* C2: every non-empty block that comes before the first detected heading  *)
(* (and before the references boundary) is in none of the five named       *)
(* sections and is in full_text; for the first page "Foo bar baz",         *)
(* "1. Introduction", "Models are trained." the introduction is "Models    *)
(* are trained." and "Foo bar baz" is in full_text and in no other slot.   *)
C2_General ==
    (current_section = "None" /\ ~ref_seen /\ seg_pc # "done") =>
        /\ \A name \in SectionNames : sections[name] = ""
        /\ \A k \in 1..Len(stream) : InFullTextList(stream[k])

C2_Example ==
    (/\ seg_pc = "done" /\ ~seg_raised /\ n_pages = 1
     /\ first_page = <<"Foo bar baz", "1. Introduction", "Models are trained.">>) =>
        /\ sections.introduction = "Models are trained."
        /\ Contains(sections.full_text, "Foo bar baz")
        /\ \A k \in DOMAIN sections \ {"full_text"} : ~Contains(sections[k], "Foo bar baz")

C2_NoDefaultBucket == C2_General /\ C2_Example

(* C3: every non-empty block visited before the references boundary or the *)
(* end of the document, be it the title, a heading or body text, is        *)
(* appended to the full-text stream: before cleaning, full_text is the     *)
(* in-order concatenation of all those blocks.                             *)
C3_FullTextComplete ==
    ~seg_raised => join(" ", full_text) = join(" ", stream)

(***************************************************************************)
(* Properties of fetch_pdfs_node and of the run (checked under Spec).      *)
(***************************************************************************)
Last(seq) == seq[Len(seq)]

InStrategies == pc \in {"strategy1", "strategy2", "strategy3", "record"}

(* The current paper has an arXiv ID whose direct fetch returned non-empty *)
(* bytes, and an open-access URL the open-access fetch would request.      *)
DirectHitWithOpenAccess ==
    /\ attempts # <<>>
    /\ attempts[1].strategy = "arxiv_direct"
    /\ attempts[1].ok
    /\ open_access_requested(get(paper, "openAccessPdf", PyNone))

(* C4: for a paper with an arXiv ID whose direct fetch returns non-empty   *)
(* bytes and with a valid open-access URL, the direct fetch is the only    *)
(* strategy attempted (no open-access request, no title search), the       *)
(* paper adds exactly 1 to arxiv_direct and nothing to open_access and     *)
(* arxiv_search, and the record carried forward has pdf_source             *)
(* "arxiv_direct".                                                         *)
C4_StrategyPrecedence ==
    DirectHitWithOpenAccess =>
        /\ Len(attempts) = 1
        /\ ~oa_response.requested
        /\ source = PyStr("arxiv_direct")
        /\ fetch_stats.arxiv_direct = stats_before.arxiv_direct + 1
        /\ fetch_stats.open_access = stats_before.open_access
        /\ fetch_stats.arxiv_search = stats_before.arxiv_search
        /\ \/ InStrategies
           \/ /\ papers_with_pdfs # <<>>
              /\ Last(papers_with_pdfs) = with_pdf(paper, pdf_bytes, PyStr("arxiv_direct"))

C4_Witness ==
    /\ pc = "fetch_loop"
    /\ DirectHitWithOpenAccess
    /\ papers_with_pdfs # <<>>
    /\ Last(papers_with_pdfs).pdf_source = PyStr("arxiv_direct")

(* C5: whatever the fields of the papers hold and whatever the external    *)
(* services answer, no exception leaves a node: every paper reaches its    *)
(* success-or-failed outcome and the run goes on to extract_text and       *)
(* finalize_extraction.                                                    *)
C5_NoPaperAbortsRun == pc # "crashed"

StrategyRank(strategy) ==
    CASE strategy = "arxiv_direct" -> 1
      [] strategy = "open_access" -> 2
      [] strategy = "arxiv_search" -> 3

Attempted(strategy) == \E k \in DOMAIN attempts : attempts[k].strategy = strategy

AllFailed == \A k \in DOMAIN attempts : ~attempts[k].ok

(* The fields of the paper hold values of the types the search service     *)
(* documents: strings, null where a field is nullable, dicts.              *)
HasType(p, key, types) == key \in DOMAIN p => p[key].t \in types

WellTyped(p) ==
    /\ HasType(p, "title", {"str"})
    /\ HasType(p, "abstract", {"str", "None"})
    /\ HasType(p, "url", {"str"})
    /\ HasType(p, "externalIds", {"dict", "None"})
    /\ HasType(p, "openAccessPdf", {"dict", "None"})
    /\ ("openAccessPdf" \in DOMAIN p /\ p.openAccessPdf.t = "dict")
           => HasType(p.openAccessPdf.d, "url", {"str", "None"})

(* C6: the strategies attempted for a paper are in the order arXiv direct, *)
(* open access, title search, each at most once; none is attempted after   *)
(* one has returned bytes; a strategy that fails (transport error,         *)
(* non-2xx, non-PDF body, malformed XML, no match) is followed by the next *)
(* one, and for a paper with well-typed fields no answer of the external   *)
(* services makes the node raise.                                          *)
C6_OrderedFallback ==
    /\ \A a, b \in DOMAIN attempts :
           a < b => StrategyRank(attempts[a].strategy) < StrategyRank(attempts[b].strategy)
    /\ \A a \in DOMAIN attempts : a < Len(attempts) => ~attempts[a].ok
    /\ (pc \in {"strategy3", "record"} /\ AllFailed) => Attempted("open_access")
    /\ (pc = "record" /\ AllFailed) => Attempted("arxiv_search")
    /\ (pc = "crashed" /\ i_fetch >= 1 /\ crash_at # 464) => ~WellTyped(paper)

C6_Witness ==
    /\ pc = "record"
    /\ Len(attempts) = 3
    /\ ~attempts[1].ok /\ ~attempts[2].ok /\ attempts[3].ok
    /\ oa_response.requested

StartsWithMagic(bytes) == Len(bytes) >= 4 /\ SubSeq(bytes, 1, 4) = "%PDF"

(* C7: the open-access fetch returns bytes only when the body of the       *)
(* response starts with the four bytes %PDF, and then returns that body;   *)
(* a body that starts otherwise, or is shorter than four bytes, yields no  *)
(* bytes whatever the status, so no record is carried forward with         *)
(* pdf_source "open_access" and bytes that do not start with %PDF.         *)
C7_MagicByteGate ==
    /\ \A k \in DOMAIN papers_with_pdfs :
           papers_with_pdfs[k].pdf_source = PyStr("open_access")
               => StartsWithMagic(papers_with_pdfs[k].pdf_bytes.v)
    /\ \A a \in DOMAIN attempts :
           (pc \in {"strategy3", "record"} /\ attempts[a].strategy = "open_access") =>
               /\ attempts[a].ok =>
                      /\ oa_response.requested /\ oa_response.ok
                      /\ StartsWithMagic(oa_response.content)
                      /\ pdf_bytes = PyBytes(oa_response.content)
                      /\ source = PyStr("open_access")
               /\ (oa_response.requested /\ ~StartsWithMagic(oa_response.content)) =>
                      /\ ~attempts[a].ok
                      /\ pc = "strategy3" => (~truthy(pdf_bytes) /\ source = PyNone)
                      /\ source # PyStr("open_access")

C7_Witness ==
    /\ pc = "strategy3"
    /\ oa_response.requested /\ oa_response.ok
    /\ ~StartsWithMagic(oa_response.content)
    /\ papers_with_pdfs # <<>>
    /\ Last(papers_with_pdfs).pdf_source = PyStr("open_access")

(***************************************************************************)
(* Properties of search_arxiv_for_pdf (checked under SpecSearch).          *)
(***************************************************************************)
(* The call got as far as scoring: a title, an answer that parses, at      *)
(* least one entry, and every entry has a title.                           *)
Scored ==
    /\ search_pc = "returned"
    /\ truthy(search_title)
    /\ search_api.ok /\ search_api.well_formed
    /\ search_api.entries # <<>>
    /\ \A k \in DOMAIN search_api.entries : search_api.entries[k].title.t = "str"

(* The similarity of entry k to the title asked for.                       *)
Similarity(k) ==
    ratio(normalize_title(search_title.v),
          normalize_title(strip(search_api.entries[k].title.v)))

AtLeast(x, y) == x.num * y.den >= y.num * x.den

Threshold == [num |-> 7, den |-> 10]

(* C8: the entry selected scores best among the entries returned; when the *)
(* best score is 0.70 or more the entry is accepted and its PDF link (when *)
(* it has one) is what is fetched; when the best score is below 0.70 no    *)
(* entry is accepted, no PDF is requested and the result is absent.        *)
C8_SimilarityThreshold ==
    Scored =>
        LET entries == search_api.entries
            best == search_result.best
        IN  IF \E k \in DOMAIN entries : AtLeast(Similarity(k), Threshold)
            THEN /\ best \in DOMAIN entries
                 /\ \A k \in DOMAIN entries : AtLeast(Similarity(best), Similarity(k))
                 /\ search_result.fetched = pdf_link_of(entries[best].links)
                 /\ (search_result.fetched # "" /\ search_pdf_response.ok)
                        => search_result.value = PyBytes(search_pdf_response.content)
            ELSE search_result = NoSearchResult

(* The best score is exactly 0.70 and the PDF of that entry is fetched.    *)
C8_Witness ==
    /\ Scored
    /\ search_result.best # 0
    /\ AtLeast(Similarity(search_result.best), Threshold)
    /\ AtLeast(Threshold, Similarity(search_result.best))
    /\ search_result.fetched # ""
    /\ truthy(search_result.value)

(***************************************************************************)
(* Properties of extract_text_node and finalize_extraction_node, and of    *)
(* the failure bookkeeping of fetch_pdfs_node (checked under Spec).        *)
(***************************************************************************)
NoPdfBytes(papers) == \A k \in DOMAIN papers : "pdf_bytes" \notin DOMAIN papers[k]

(* C9: no record of papers_with_text has a pdf_bytes field, and so none of *)
(* the papers written to the output file has one, whichever strategy       *)
(* fetched the PDF.                                                        *)
C9_SizeHygiene ==
    /\ NoPdfBytes(papers_with_text)
    /\ output_file # <<>> => NoPdfBytes(output_file[1].papers)

C9_Witness ==
    /\ pc = "END"
    /\ output_file # <<>>
    /\ Len(output_file[1].papers) = 2
    /\ output_file[1].papers[1].pdf_source # output_file[1].papers[2].pdf_source
    /\ "extracted_text" \in DOMAIN output_file[1].papers[1]

(* The current paper has been recorded, as fetched or as failed.           *)
Recorded == i_fetch >= 1 /\ ~InStrategies /\ pc # "crashed"

(* C10: a paper for which every strategy failed adds exactly 1 to failed   *)
(* and exactly one entry to failure_reasons; a paper that was fetched adds *)
(* nothing to either; the reason recorded is never "Unknown", and it is    *)
(* the open-access reason whenever strategy 2 set one.                     *)
C10_FailureReason ==
    LET reasons == fetch_stats.failure_reasons
        before == stats_before.failure_reasons
    IN  /\ \A k \in DOMAIN reasons : reasons[k].reason # "Unknown"
        /\ Recorded =>
               IF AllFailed
               THEN /\ fetch_stats.failed = stats_before.failed + 1
                    /\ Len(reasons) = Len(before) + 1
                    /\ SubSeq(reasons, 1, Len(before)) = before
                    /\ Attempted("open_access") /\ Attempted("arxiv_search")
                    /\ \A a \in DOMAIN attempts :
                           (attempts[a].strategy = "open_access" /\ truthy(attempts[a].reason))
                               => Last(reasons).reason = attempts[a].reason.v
               ELSE /\ fetch_stats.failed = stats_before.failed
                    /\ reasons = before

C10_Witness ==
    /\ Recorded
    /\ AllFailed
    /\ \E a \in DOMAIN attempts :
           attempts[a].strategy = "open_access" /\ truthy(attempts[a].reason)
    /\ Last(fetch_stats.failure_reasons).reason = "OpenAccess URL invalid or not a PDF"

(***************************************************************************)
(* Properties of extract_text_node with the segmenter (SpecExtract).       *)
(***************************************************************************)
SevenSlots ==
    {"title", "introduction", "methods", "results", "discussion", "conclusion",
     "full_text"}

(* A call of the segmenter that raised inside has returned.                *)
FailedCall == pc = "segmenting" /\ seg_pc = "done" /\ seg_raised

(* C11: a failure inside extract_text_from_pdf does not leave it: the call *)
(* returns a bundle of seven empty slots; extract_text_node then counts    *)
(* the paper as a failed extraction, does not add it to papers_with_text,  *)
(* and goes on with the next paper (or leaves the loop after the last).    *)
C11_FailureContainment ==
    /\ [](FailedCall =>
            /\ DOMAIN sections = SevenSlots
            /\ \A k \in SevenSlots : sections[k] = "")
    /\ [][FailedCall =>
            /\ extraction_stats'.failed_extractions =
                   extraction_stats.failed_extractions + 1
            /\ extraction_stats'.successful_extractions =
                   extraction_stats.successful_extractions
            /\ papers_with_text' = papers_with_text
            /\ IF i_extract < Len(papers_with_pdfs)
               THEN i_extract' = i_extract + 1 /\ pc' = "segmenting" /\ seg_pc' = "open"
               ELSE pc' = "extract_loop"]_vars

(* The second paper's PDF failed to parse after pages of it were read, and *)
(* the node has rejected it and left the loop.                             *)
C11_Witness ==
    /\ pc = "extract_loop"
    /\ i_extract = 2
    /\ seg_raised
    /\ page_num >= 1
    /\ extraction_stats.failed_extractions = 2
    /\ papers_with_text = <<>>

(***************************************************************************)
(* Properties of extract_text_node (checked under Spec).                   *)
(***************************************************************************)
InExtract == pc \in {"extract_loop", "finalize_extraction", "END"}

(* The papers gone through so far whose full_text is longer than 500.      *)
LongEnough == {k \in DOMAIN text_lengths : text_lengths[k] > 500}

(* C12: a paper is carried into papers_with_text if and only if the        *)
(* full_text returned for it is non-empty and longer than 500 characters;  *)
(* a full_text of 500 characters or fewer counts as a failed extraction.   *)
C12_MinimumViableText ==
    InExtract =>
        /\ Len(text_lengths) = i_extract
        /\ Len(papers_with_text) = Cardinality(LongEnough)
        /\ extraction_stats.successful_extractions = Cardinality(LongEnough)
        /\ extraction_stats.failed_extractions = i_extract - Cardinality(LongEnough)
        /\ \A k \in DOMAIN papers_with_text :
               Len(papers_with_text[k].extracted_text.d.full_text) > 500
        /\ (text_lengths # <<>> /\ Last(text_lengths) > 500) =>
               /\ papers_with_text # <<>>
               /\ Last(papers_with_text) =
                      with_text(without_pdf_bytes(papers_with_pdfs[i_extract]),
                                Last(papers_with_text).extracted_text.d)
               /\ Len(Last(papers_with_text).extracted_text.d.full_text) =
                      Last(text_lengths)

(* A text of exactly 500 characters was rejected, one of 501 accepted.     *)
C12_Witness ==
    /\ pc = "END"
    /\ text_lengths = <<500, 501>>
    /\ Len(papers_with_text) = 1
    /\ extraction_stats.failed_extractions = 1

(***************************************************************************)
(* Properties of the graph (checked under Spec).                           *)
(***************************************************************************)
(* The stage the run is in: 1 fetch_pdfs, 2 extract_text,                  *)
(* 3 finalize_extraction, 4 done; 0 when an exception has ended the run.   *)
StageOf(at) ==
    CASE at \in {"fetch_pdfs", "fetch_loop", "strategy1", "strategy2", "strategy3",
                 "record"} -> 1
      [] at \in {"extract_text", "extract_loop"} -> 2
      [] at = "finalize_extraction" -> 3
      [] at = "END" -> 4
      [] OTHER -> 0

(* C13: every run goes through fetch_pdfs, extract_text and                *)
(* finalize_extraction in that order, each once: every step stays in its   *)
(* stage or moves to the next one, never back and never out of the         *)
(* sequence, and after finalize_extraction the run is done.                *)
C13_StageOrdering ==
    [][/\ StageOf(pc) # 0
       /\ StageOf(pc') \in {StageOf(pc), StageOf(pc) + 1}]_vars

(***************************************************************************)
(* Properties of finalize_extraction_node (checked under SpecFinalize).    *)
(***************************************************************************)
Min(a, b) == IF a < b THEN a ELSE b

(* C14: the failure_reasons of the metadata are the first min(10, n)       *)
(* entries of the n failures of the fetch stage, in their order, and       *)
(* failed_fetches is n.                                                    *)
C14_FailureListTruncation ==
    output_file # <<>> =>
        LET metadata == output_file[1].metadata
            all == fetch_stats.failure_reasons
            n == Len(all)
        IN  /\ fetch_stats.failed = n
            /\ metadata.failed_fetches = n
            /\ Len(metadata.failure_reasons) = Min(10, n)
            /\ \A k \in 1..Min(10, n) : metadata.failure_reasons[k] = all[k]

(* Eleven papers failed, with both reasons among them; ten are listed.     *)
C14_Witness ==
    /\ pc = "END"
    /\ output_file # <<>>
    /\ Len(fetch_stats.failure_reasons) = 11
    /\ fetch_stats.failure_reasons[1].reason # fetch_stats.failure_reasons[2].reason
    /\ Len(output_file[1].metadata.failure_reasons) = 10
    /\ output_file[1].metadata.failed_fetches = 11

(***************************************************************************)
(* Properties of finalize_extraction_node in the run (checked under Spec). *)
(***************************************************************************)
(* C15: when the write of the output file fails, finalize_extraction_node  *)
(* still returns, and what it returns, papers_with_text and                *)
(* extraction_results, is what it received.                                *)
C15_SinkFailureIsolation ==
    [][(pc = "finalize_extraction" /\ output_file' = <<>>) =>
          /\ pc' = "END"
          /\ papers_with_text' = papers_with_text
          /\ extraction_results' = extraction_results]_vars

(* The write failed in a run that had extracted a paper.                   *)
C15_Witness ==
    /\ pc = "END"
    /\ output_file = <<>>
    /\ papers_with_text # <<>>
    /\ "extraction_stats" \in DOMAIN extraction_results

(***************************************************************************)
(* Properties of clean_pdf_text (checked under SpecClean).                 *)
(***************************************************************************)
(* C16: cleaning a cleaned text changes nothing:                           *)
(* clean_pdf_text(clean_pdf_text(x)) = clean_pdf_text(x); the line that    *)
(* the first pass joins from the surviving lines is neither dropped nor    *)
(* changed by the second pass.                                             *)
C16_CleaningIdempotent ==
    clean_pc = "twice" => clean_twice = clean_once

(* Lines were dropped and joined by the first pass, and two pieces of a    *)
(* word the notice rule looks for ended up next to each other.             *)
C16_Witness ==
    /\ clean_pc = "twice"
    /\ Contains(clean_input, "\n")
    /\ Contains(clean_once, "copy right")
    /\ clean_once # clean_input

(***************************************************************************)
(* Properties of the statistics in the run (checked under Spec).           *)
(***************************************************************************)
(* C17: once fetch_pdfs_node has returned, no step of extract_text_node or *)
(* finalize_extraction_node changes fetch_stats, and once                  *)
(* extract_text_node has returned, finalize_extraction_node does not       *)
(* change extraction_stats; extract_text_node adds extraction_stats to     *)
(* extraction_results next to the fetch_stats it found there.              *)
C17_StatsReadOnly ==
    [][/\ StageOf(pc) \in {2, 3} =>
             /\ fetch_stats' = fetch_stats
             /\ extraction_results.fetch_stats = fetch_stats
             /\ "fetch_stats" \in DOMAIN extraction_results'
             /\ extraction_results'.fetch_stats = fetch_stats
       /\ StageOf(pc) = 3 =>
             /\ extraction_stats' = extraction_stats
             /\ extraction_results.extraction_stats = extraction_stats
             /\ extraction_results' = extraction_results
       /\ (StageOf(pc) = 2 /\ StageOf(pc') = 3) =>
             /\ DOMAIN extraction_results' = {"fetch_stats", "extraction_stats"}
             /\ extraction_results'.extraction_stats = extraction_stats']_vars

(* A run with a failed fetch and an extracted paper has been finalized.    *)
C17_Witness ==
    /\ pc = "END"
    /\ fetch_stats.failed = 1
    /\ Len(fetch_stats.failure_reasons) = 1
    /\ extraction_stats.successful_extractions = 1
    /\ extraction_results.fetch_stats = fetch_stats
    /\ extraction_results.extraction_stats = extraction_stats

(***************************************************************************)
(* Properties of the section rules of the segmenter (SpecSeg).             *)
(***************************************************************************)
SectionOrder == <<"introduction", "methods", "results", "discussion", "conclusion">>

(* The sections one of whose patterns matches the text, by their place in  *)
(* the order.                                                              *)
Matching(text_lower) ==
    {k \in 1..Len(SectionOrder) :
        \E n \in 1..Len(section_patterns) :
            /\ section_patterns[n].name = SectionOrder[k]
            /\ matches_section(n, text_lower)}

(* The loop is at a block that is not empty, is not taken as the title and *)
(* is not the references heading, and no references heading came before.   *)
AtClassifiedBlock ==
    /\ seg_pc = "block" /\ blocks # <<>> /\ ~ref_seen
    /\ strip(Head(blocks)) # ""
    /\ ~(page_num = 0 /\ sections.title = "" /\ is_title_candidate(strip(Head(blocks))))
    /\ ~is_references(lower(strip(Head(blocks))))

(* C18: such a block is tested against introduction, methods, results,     *)
(* discussion, conclusion in this order and the first section with a       *)
(* matching pattern becomes the current one, even when a later section     *)
(* matches too; the heading is appended to no section; a block that        *)
(* matches none is appended to the current section and to no other, and    *)
(* leaves the current section as it is.                                    *)
C18_SectionPrecedence ==
    [][AtClassifiedBlock =>
          LET text == strip(Head(blocks))
              matching == Matching(lower(text))
          IN  IF matching # {}
              THEN /\ \E k \in matching :
                         /\ \A j \in matching : k <= j
                         /\ current_section' = SectionOrder[k]
                   /\ sections' = sections
              ELSE /\ current_section' = current_section
                   /\ \A name \in SectionNames :
                         sections'[name] =
                             IF name = current_section
                             THEN sections[name] \o " " \o text
                             ELSE sections[name]
                   /\ sections'.title = sections.title]_vars

(* A heading that matches methods and results made methods the current     *)
(* section, and the body block after it went to methods alone.             *)
C18_Witness ==
    /\ \E k \in DOMAIN stream :
          /\ stream[k] = "2.Experimental Setup"
          /\ Cardinality(Matching(lower(stream[k]))) = 2
    /\ sections.title # "2.Experimental Setup"
    /\ current_section = "methods"
    /\ Contains(sections.methods, "Models are trained.")
    /\ sections.results = ""


(***************************************************************************)
(* C19, the title rule.  The title slot changes during the traversal only  *)
(* while it is still empty and the block is on page 0; the block that      *)
(* fills it has at least 3 words and fewer than 200 characters, no block   *)
(* visited before it on that page has both, and the step writes to none of *)
(* the five named sections (nor to the full-text list).  So the title is   *)
(* assigned at most once, and never from a later page.  The bundle that a  *)
(* call returns without an exception holds the cleaned text of that block, *)
(* or the empty string when page 0 had no such block.                      *)
(***************************************************************************)
ThreeWordsUnder200(text) == Len(split(text)) >= 3 /\ Len(text) < 200

FirstTitleLike(texts) ==
    IF \E k \in 1..Len(texts) : ThreeWordsUnder200(texts[k])
    THEN texts[SetMin({k \in 1..Len(texts) : ThreeWordsUnder200(texts[k])})]
    ELSE ""

TitleAssigned == seg_pc = "block" /\ sections'.title # sections.title

C19_TitleRule ==
    /\ [][TitleAssigned =>
             /\ page_num = 0
             /\ sections.title = ""
             /\ ~ref_seen
             /\ first_page' = Append(first_page, sections'.title)
             /\ sections'.title = FirstTitleLike(first_page')
             /\ FirstTitleLike(first_page) = ""
             /\ \A name \in SectionNames : sections'[name] = sections[name]
             /\ full_text' = full_text]_vars
    /\ [](seg_pc \in {"page", "block"} => sections.title = FirstTitleLike(first_page))
    /\ [](seg_pc = "done" /\ ~seg_raised =>
             sections.title = clean_pdf_text(FirstTitleLike(first_page)))

(* The 200-character block and a heading come first on page 0; the third   *)
(* block of the page is the title and is kept out of the introduction.     *)
C19_Witness ==
    /\ seg_pc = "done"
    /\ ~seg_raised
    /\ Len(first_page) = 3
    /\ Len(first_page[1]) = 200
    /\ first_page[2] = "1. Introduction"
    /\ current_section = "introduction"
    /\ sections.title = "Foo bar baz"
    /\ sections.introduction = ""


(***************************************************************************)
(* C20, the priority of the arXiv identifier sources.  For every paper     *)
(* extract_arxiv_id_from_paper returns: the identifier of externalIds      *)
(* when that field holds one; otherwise the one matched in the abstract;   *)
(* otherwise the one matched in the url; otherwise None, and then strategy *)
(* 1 makes no request.                                                     *)
(***************************************************************************)
ExternalId(p) ==
    LET ids == get(p, "externalIds", EmptyDict)
    IN  IF ids.t # "dict" THEN PyNone
        ELSE IF "ArXiv" \in DOMAIN ids.d /\ truthy(ids.d["ArXiv"]) THEN ids.d["ArXiv"]
        ELSE IF "arxiv" \in DOMAIN ids.d /\ truthy(ids.d["arxiv"]) THEN ids.d["arxiv"]
        ELSE PyNone

AbstractId(p) ==
    LET abstract == get(p, "abstract", PyStr(""))
    IN  IF abstract.t = "str" THEN abstract_arxiv_id(abstract.v) ELSE PyNone

UrlId(p) ==
    LET url == get(p, "url", PyStr(""))
    IN  IF url.t = "str" /\ Contains(url.v, "arxiv.org") THEN url_arxiv_id(url.v)
        ELSE PyNone

ByPriority(p) ==
    IF ExternalId(p) # PyNone THEN ExternalId(p)
    ELSE IF AbstractId(p) # PyNone THEN AbstractId(p)
    ELSE UrlId(p)

PastStrategy1 == pc \in {"strategy2", "strategy3", "record"}

IdentifierReturned ==
    PastStrategy1 =>
        /\ arxiv_id = ByPriority(paper)
        /\ arxiv_id = PyNone => ~Attempted("arxiv_direct")
        /\ arxiv_id # PyNone => Attempted("arxiv_direct")

C20_IdentifierPriority ==
    /\ IdentifierReturned
    /\ ~(pc = "crashed" /\ crash_at = 412)

(* The three sources hold three different identifiers and the one of       *)
(* externalIds was requested; none of the three yields one in a paper      *)
(* whose url is on arxiv.org.                                              *)
C20_Reached ==
    /\ PastStrategy1
    /\ ExternalId(paper) # PyNone /\ AbstractId(paper) # PyNone /\ UrlId(paper) # PyNone
    /\ ExternalId(paper) # AbstractId(paper) /\ AbstractId(paper) # UrlId(paper)
    /\ arxiv_id = ExternalId(paper)

C20_ReachedAbstract ==
    /\ PastStrategy1
    /\ ExternalId(paper) = PyNone /\ "externalIds" \in DOMAIN paper
    /\ AbstractId(paper) # PyNone /\ UrlId(paper) # PyNone
    /\ arxiv_id = AbstractId(paper) /\ arxiv_id # UrlId(paper)

C20_ReachedNone ==
    /\ PastStrategy1
    /\ "url" \in DOMAIN paper /\ Contains(paper.url.v, "arxiv.org")
    /\ arxiv_id = PyNone
    /\ attempts = <<>>


(***************************************************************************)
(* C21, conservation of the fetch counters.  Between two papers of the     *)
(* loop of fetch_pdfs_node and after the node has returned:                *)
(*   - arxiv_direct + open_access + arxiv_search + failed is the number of *)
(*     papers processed so far, and total_papers once the node returned;   *)
(*   - the paper just processed incremented exactly one of the four        *)
(*     counters, by one;                                                   *)
(*   - papers_with_pdfs has arxiv_direct + open_access + arxiv_search      *)
(*     records;                                                            *)
(*   - for each of the three sources, the records whose pdf_source is that *)
(*     source are as many as its counter, and the record of the paper just *)
(*     processed names the counter that paper incremented.                 *)
(***************************************************************************)
SuccessCounters == {"arxiv_direct", "open_access", "arxiv_search"}

FetchCounters == SuccessCounters \cup {"failed"}

Fetched(stats) == stats.arxiv_direct + stats.open_access + stats.arxiv_search

Incremented(before, after) == {c \in FetchCounters : after[c] # before[c]}

RecordsFrom(c) == {k \in DOMAIN papers_with_pdfs : papers_with_pdfs[k].pdf_source = PyStr(c)}

BetweenPapers == pc = "fetch_loop"

FetchReturned ==
    pc \in {"extract_text", "extract_loop", "segmenting", "finalize_extraction", "END"}

C21_FetchCounterConservation ==
    /\ BetweenPapers \/ FetchReturned =>
          /\ Fetched(fetch_stats) + fetch_stats.failed = i_fetch
          /\ Len(papers_with_pdfs) = Fetched(fetch_stats)
          /\ \A c \in SuccessCounters : Cardinality(RecordsFrom(c)) = fetch_stats[c]
          /\ \A k \in DOMAIN papers_with_pdfs :
                \E c \in SuccessCounters : papers_with_pdfs[k].pdf_source = PyStr(c)
    /\ BetweenPapers /\ i_fetch > 0 =>
          \E c \in FetchCounters :
             /\ Incremented(stats_before, fetch_stats) = {c}
             /\ fetch_stats[c] = stats_before[c] + 1
             /\ c = "failed" => Len(papers_with_pdfs) = Fetched(stats_before)
             /\ c # "failed" =>
                   /\ Len(papers_with_pdfs) = Fetched(stats_before) + 1
                   /\ Last(papers_with_pdfs).pdf_source = PyStr(c)
    /\ FetchReturned =>
          /\ i_fetch = fetch_stats.total_papers
          /\ extraction_results.fetch_stats = fetch_stats

(* FETCH has returned after two papers: one fetched from its open-access   *)
(* URL, one failed.                                                        *)
C21_Witness ==
    /\ pc = "extract_text"
    /\ fetch_stats.total_papers = 2
    /\ fetch_stats.open_access = 1
    /\ fetch_stats.failed = 1
    /\ Len(papers_with_pdfs) = 1
    /\ papers_with_pdfs[1].pdf_source = PyStr("open_access")


(***************************************************************************)
(* C22, conservation of the extraction counters.  While extract_text_node  *)
(* loops, successful_extractions + failed_extractions is the number of     *)
(* records visited.  Once it has returned: the two add up to total_pdfs,   *)
(* which is the number of records received from fetch_pdfs_node;           *)
(* papers_with_text has successful_extractions records; and the metadata   *)
(* that finalize_extraction_node builds satisfies                          *)
(*     text_extracted <= pdfs_fetched <= total_papers  and                 *)
(*     pdfs_fetched + failed_fetches = total_papers,                       *)
(* in the file written as well.                                            *)
(***************************************************************************)
Extractions(stats) == stats.successful_extractions + stats.failed_extractions

ExtractReturned == pc \in {"finalize_extraction", "END"}

Conserved(metadata) ==
    /\ metadata.text_extracted <= metadata.pdfs_fetched
    /\ metadata.pdfs_fetched <= metadata.total_papers
    /\ metadata.pdfs_fetched + metadata.failed_fetches = metadata.total_papers

C22_ExtractionCounterConservation ==
    /\ pc = "extract_loop" =>
          /\ Extractions(extraction_stats) = i_extract
          /\ Len(papers_with_text) = extraction_stats.successful_extractions
    /\ ExtractReturned =>
          /\ Extractions(extraction_stats) = extraction_stats.total_pdfs
          /\ extraction_stats.total_pdfs = Len(papers_with_pdfs)
          /\ Len(papers_with_text) = extraction_stats.successful_extractions
          /\ extraction_results.extraction_stats = extraction_stats
          /\ Conserved(output_data(papers_with_text, extraction_results).metadata)
          /\ output_data(papers_with_text, extraction_results).metadata.text_extracted
                = Len(papers_with_text)
    /\ pc = "END" /\ output_file # <<>> =>
          /\ output_file[1] = output_data(papers_with_text, extraction_results)
          /\ Conserved(output_file[1].metadata)
          /\ Len(output_file[1].papers) = output_file[1].metadata.text_extracted

(* The file of a run on two papers, both fetched: the text of one was      *)
(* kept, the other extraction failed.                                      *)
C22_Witness ==
    /\ pc = "END"
    /\ output_file # <<>>
    /\ output_file[1].metadata.total_papers = 2
    /\ output_file[1].metadata.pdfs_fetched = 2
    /\ output_file[1].metadata.text_extracted = 1
    /\ extraction_stats.failed_extractions = 1

====
